---- MODULE Spec2Model ----
(***************************************************************************)
(* Model of the acquisition pipeline of the anime tracking service:        *)
(*   - the two-level concurrency governor (core/concurrency.py),           *)
(*   - the crawler NyaaClient.fetch / _fetch_with_retries,                 *)
(*   - the downloader TorrentDownloader.download,                          *)
(*   - the dedup store TorrentSeenRepository and the scan operation        *)
(*     scan_nyaa_sources,                                                  *)
(*   - the task tracker track_task / TaskTracker.                          *)
(* Each group of variables has its own specification; the other groups     *)
(* stay parked at their initial value.                                     *)
(***************************************************************************)
EXTENDS Integers, Sequences, FiniteSets, TLC

(***************************************************************************)
(* Bounds of the model.                                                    *)
(***************************************************************************)
\* number of concurrent callers of the governor in SpecGov
NumCallers == 2
\* largest configured permit count (download_concurrency, rate_limit_per_domain)
MaxBound == 2
\* largest max_retries of a fetch (SpecFetch): 2^5 exceeds the backoff cap,
\* and attempt 5 backs off only when a sixth attempt exists
MaxRetries == 6
\* largest integer Retry-After header
MaxRetryAfter == 2
\* cap of the tracker's counters in the generic wrapped operation (SpecTask)
MaxCount == 2

(***************************************************************************)
(* Program constants.                                                      *)
(***************************************************************************)
\* the cap of the exponential backoff, min(2**attempt, 30)
BackoffCap == 30
\* the default of a missing Retry-After header, headers.get("Retry-After", "1")
DefaultRetryAfter == 1

\* the callers: SpecGov runs NumCallers of them, SpecHosts all of them (one
\* more than the largest global bound)
Callers == 1..(NumCallers + 1)
NyaaHost == "nyaa"
Hosts == {NyaaHost, "cdn"}
Phases == {"rss", "html"}
\* the queries a fetch is called with
Queries == {"q1", "q2"}
\* Retry-After header of a 429 response: missing, a decimal string, or a
\* string int() rejects (an HTTP date, handled as a ValueError)
Decimals == <<"1", "2", "3", "4">>
RetryAfterHeaders == {"absent"} \cup {Decimals[i] : i \in 1..MaxRetryAfter}
\* int(text) of a decimal string
ParseInt(text) == CHOOSE i \in 1..Len(Decimals) : Decimals[i] = text

VARIABLES
    \* ---- governor (core/concurrency.py)
    gBound,     \* GlobalConcurrencyLimiter bound
    hBound,     \* DomainRateLimiter max_concurrent
    gsem,       \* GlobalConcurrencyLimiter._semaphore value
    hsem,       \* DomainRateLimiter._locks[domain] value
    \* ---- callers: one fetch() or one download() each
    role,       \* "none", "crawler", "downloader"
    host,       \* the domain key the caller uses
    pc,         \* position of the caller's coroutine
    phase,      \* crawler: "rss" or "html" endpoint
    attempt,    \* crawler: loop variable of _fetch_with_retries
    maxr,       \* crawler: max_retries
    nreq,       \* crawler: HTTP requests issued per endpoint in this fetch
    sleepFor,   \* crawler: argument of the pending/last asyncio.sleep
    sleepKind,  \* crawler: "none", "retry_after", "backoff"
    resp,       \* the last response the caller's request received
    result,     \* what the call returned / raised
    query,      \* crawler: the query fetch() was called with
    url,        \* crawler: endpoint and query of the last request issued
    feedOut,    \* crawler: the items the feed's _fetch_with_retries returned
    \* ---- task tracker (core/task_tracker.py), one tracker per run
    tpc,             \* position inside track_task
    row,             \* the TaskRun row of task_history
    items_processed, \* TaskTracker.items_processed
    items_succeeded, \* TaskTracker.items_succeeded
    items_failed,    \* TaskTracker.items_failed
    trResult,        \* TaskTracker.result
    exc,             \* the exception in flight inside track_task
    outcome,         \* how track_task ended for its caller
    \* ---- dedup store (TorrentSeenRepository, collection torrents_seen)
    seen,       \* the stored SeenRelease rows
    msDoc,      \* the document of a run's current / last mark_seen call
    msState,    \* "idle", "inserting", "returned", "DuplicateKeyError"
    \* ---- scan (scheduler/operations.py scan_nyaa_sources), one per run
    enabled,    \* settings_repo.list_enabled(): the enabled anilist ids
    feed,       \* what the crawler finds upstream
    cfg,        \* the app_config record the runs read (config_repo.get())
    spc,        \* position inside scan_nyaa_sources
    ti,         \* index of the entry of enabled_settings being processed
    ii,         \* index of the item of items being processed
    total_downloaded,
    total_failed,
    downloaded, \* the (anilist id, link) the run's downloader fetched
    pred,       \* the runs that had ended when the run started
    titleOut,   \* what each entry of enabled_settings met in the run
    \* ---- query resolution of one profile (list_enabled, _build_search_query)
    setting,    \* the anime_settings record of the profile
    anime,      \* the anime record of the profile's title, or "missing"
    qpc,        \* "stored", "listed", "not_listed", "crawled", "skipped"
    effQuery,   \* the value of `query` the scan loop computed for the entry
    \* ---- scheduler (SchedulerService over the AsyncIOScheduler)
    schedRunning, \* self._scheduler.running
    jobs,         \* how many registered triggers carry each job id
    indexed,      \* the torrents_seen indexes have been ensured
    hpc,          \* position of each start / shutdown / reload handler
    shutHit,      \* what a scheduler shutdown did to each run it met in flight
    shutdown_requested, \* SchedulerService._shutdown_requested
    \* ---- the destination directory of a download (write_bytes_atomically)
    dest,       \* the content under the final file name, or "absent"
    tmp,        \* the content of each caller's temporary file, or "none"
    \* ---- matches_filters(item, criteria)
    nyaaItem,   \* the NyaaItem
    criteria,   \* the NyaaFilterInput
    matched,    \* "none" before the call, else what matches_filters returned
    \* ---- PathMapper
    mappings,   \* the configured path_mappings list
    mapper,     \* PathMapper._mappings
    path,       \* the argument of to_qbittorrent
    mapped,     \* what to_qbittorrent returned
    mpc,        \* "configured", "constructed", "translated"
    \* ---- export (QBittorrentClient.add_torrent inside the scan)
    added       \* what the run's last add_torrent call did

govVars == <<gBound, hBound, gsem, hsem>>
callVars == <<role, host, pc, phase, attempt, maxr, nreq, sleepFor, sleepKind, resp,
             result, query, url, feedOut>>
\* what only fetch() itself and its requests change
fetchVars == <<query, url, feedOut>>
trackVars == <<tpc, row, items_processed, items_succeeded, items_failed, trResult, exc,
              outcome>>
storeVars == <<seen, msDoc, msState>>
scanVars == <<enabled, feed, cfg, spc, ti, ii, total_downloaded, total_failed,
             downloaded, pred, titleOut>>
queryVars == <<setting, anime, qpc, effQuery>>
schedVars == <<schedRunning, jobs, indexed, hpc, shutHit, shutdown_requested>>
fileVars == <<dest, tmp>>
filterVars == <<nyaaItem, criteria, matched>>
mapperVars == <<mappings, mapper, path, mapped, mpc>>
exportVars == <<added>>
coreVars == <<govVars, callVars, trackVars, storeVars, scanVars>>
\* the parts that stand beside the crawl, the tracker, the store and the scan
sideVars == <<queryVars, schedVars, fileVars, filterVars, mapperVars, exportVars>>
\* what the governor's callers leave alone
nonCallVars == <<tpc, row, items_processed, items_succeeded, items_failed, trResult, exc,
                outcome, seen, msDoc, msState,
                enabled, feed, cfg, spc, ti, ii, total_downloaded, total_failed,
                downloaded, pred, titleOut, sideVars>>
\* what the tracker leaves alone
nonTrackVars == <<gBound, hBound, gsem, hsem,
                 role, host, pc, phase, attempt, maxr, nreq, sleepFor, sleepKind, resp,
                 result, query, url, feedOut, seen, msDoc, msState,
                 enabled, feed, cfg, spc, ti, ii, total_downloaded, total_failed,
                 downloaded, pred, titleOut, sideVars>>
\* what the scan leaves alone
nonScanVars == <<gBound, hBound, gsem, hsem,
                role, host, pc, phase, attempt, maxr, nreq, sleepFor, sleepKind, resp,
                result, query, url, feedOut, sideVars>>
vars == <<gBound, hBound, gsem, hsem,
          role, host, pc, phase, attempt, maxr, nreq, sleepFor, sleepKind, resp, result,
          query, url, feedOut,
          tpc, row, items_processed, items_succeeded, items_failed, trResult, exc,
          outcome, seen, msDoc, msState,
          enabled, feed, cfg, spc, ti, ii, total_downloaded, total_failed,
          downloaded, pred, titleOut, sideVars>>

Min(a, b) == IF a <= b THEN a ELSE b

RECURSIVE Pow2(_)
Pow2(n) == IF n = 0 THEN 1 ELSE 2 * Pow2(n - 1)

Terminal == {"idle", "returned", "raised", "cancelled"}

(***************************************************************************)
(* Governor: two counting semaphores.                                      *)
(***************************************************************************)
\* the callers inside the governed section (awaiting self._client.get)
Inside == {c \in Callers : pc[c] = "request"}
InsideHost(h) == {c \in Inside : host[c] = h}
\* the permits a caller holds
HoldsGlobal(c) == pc[c] \in {"acq_host", "request"}
HoldsHost(c) == pc[c] = "request"

\* async with global_limiter.acquire(): await self._semaphore.acquire()
AcquireGlobal(c) ==
    /\ pc[c] = "acq_global"
    /\ gsem > 0
    /\ gsem' = gsem - 1
    /\ pc' = [pc EXCEPT ![c] = "acq_host"]
    /\ UNCHANGED <<gBound, hBound, hsem, role, host, phase, attempt, maxr, nreq,
                   sleepFor, sleepKind, resp, result>>
    /\ UNCHANGED nonCallVars
    /\ UNCHANGED fetchVars

\* (mutant) the host semaphore does not block when it has no permit left
AcquireHostNoWait(c) ==
    /\ pc[c] = "acq_host"
    /\ hsem' = [hsem EXCEPT ![host[c]] = @ - 1]
    /\ pc' = [pc EXCEPT ![c] = "request"]
    /\ nreq' = [nreq EXCEPT ![c][phase[c]] = @ + 1]
    /\ url' = [url EXCEPT ![c] = <<phase[c], query[c]>>]
    /\ UNCHANGED <<gBound, hBound, gsem, role, host, phase, attempt, maxr,
                   sleepFor, sleepKind, resp, result, query, feedOut>>
    /\ UNCHANGED nonCallVars

\* async with domain_limiter.limited(domain): await semaphore.acquire();
\* the request is issued as soon as the permit is held
AcquireHost(c) ==
    /\ pc[c] = "acq_host"
    /\ hsem[host[c]] > 0
    /\ hsem' = [hsem EXCEPT ![host[c]] = @ - 1]
    /\ pc' = [pc EXCEPT ![c] = "request"]
    /\ nreq' = [nreq EXCEPT ![c][phase[c]] = @ + 1]
    /\ url' = [url EXCEPT ![c] = <<phase[c], query[c]>>]
    /\ UNCHANGED <<gBound, hBound, gsem, role, host, phase, attempt, maxr,
                   sleepFor, sleepKind, resp, result, query, feedOut>>
    /\ UNCHANGED nonCallVars

\* (mutant) limited() without its finally: the host permit is never given back
ReleaseGlobalOnly(c) ==
    /\ hsem' = hsem
    /\ gsem' = gsem + 1

\* leaving both async-with blocks: finally: semaphore.release(), inner first
ReleaseBoth(c) ==
    /\ hsem' = [hsem EXCEPT ![host[c]] = @ + 1]
    /\ gsem' = gsem + 1

\* (mutant) the permits held at a cancellation are not given back
CancelKeepsPermits(c) ==
    /\ pc[c] \in {"acq_global", "acq_host", "request", "sleep", "write"}
    /\ pc' = [pc EXCEPT ![c] = "cancelled"]
    /\ result' = [result EXCEPT ![c] = "CancelledError"]
    /\ UNCHANGED <<gBound, hBound, gsem, hsem, role, host, phase, attempt, maxr, nreq,
                   sleepFor, sleepKind, resp>>
    /\ UNCHANGED nonCallVars
    /\ UNCHANGED fetchVars

\* asyncio cancellation delivered at an await point; the finally blocks of the
\* context managers entered so far release their permits
Cancel(c) ==
    /\ pc[c] \in {"acq_global", "acq_host", "request", "sleep", "write"}
    /\ IF pc[c] = "request" THEN ReleaseBoth(c)
       ELSE IF pc[c] = "acq_host" THEN gsem' = gsem + 1 /\ hsem' = hsem
       ELSE UNCHANGED <<gsem, hsem>>
    /\ pc' = [pc EXCEPT ![c] = "cancelled"]
    /\ result' = [result EXCEPT ![c] = "CancelledError"]
    /\ UNCHANGED <<gBound, hBound, role, host, phase, attempt, maxr, nreq,
                   sleepFor, sleepKind, resp>>
    /\ UNCHANGED nonCallVars
    /\ UNCHANGED fetchVars

(***************************************************************************)
(* Crawler: NyaaClient.fetch and _fetch_with_retries.                      *)
(***************************************************************************)
\* (mutant) fetch goes on to the HTML endpoint whatever the feed returned
AfterReturnAlways(c, ph, items) ==
    /\ feedOut' = IF ph = "rss" THEN [feedOut EXCEPT ![c] = items] ELSE feedOut
    /\ IF ph = "rss" /\ maxr[c] >= 1
       THEN /\ phase' = [phase EXCEPT ![c] = "html"]
            /\ attempt' = [attempt EXCEPT ![c] = 1]
            /\ pc' = [pc EXCEPT ![c] = "acq_global"]
            /\ result' = result
       ELSE /\ phase' = [phase EXCEPT ![c] = IF ph = "rss" /\ items = "empty"
                                              THEN "html" ELSE ph]
            /\ attempt' = attempt
            /\ pc' = [pc EXCEPT ![c] = "returned"]
            /\ result' = [result EXCEPT ![c] = items]

\* the state a crawler is in once _fetch_with_retries has returned `items`
\* ("empty" or "items") for the endpoint `ph`: fetch falls back to the HTML
\* endpoint when the feed gave nothing, and the loop of the fallback does not
\* run at all when max_retries is 0
AfterReturn(c, ph, items) ==
    /\ feedOut' = IF ph = "rss" THEN [feedOut EXCEPT ![c] = items] ELSE feedOut
    /\ IF ph = "rss" /\ items = "empty" /\ maxr[c] >= 1
       THEN /\ phase' = [phase EXCEPT ![c] = "html"]
            /\ attempt' = [attempt EXCEPT ![c] = 1]
            /\ pc' = [pc EXCEPT ![c] = "acq_global"]
            /\ result' = result
       ELSE /\ phase' = [phase EXCEPT ![c] = IF ph = "rss" /\ items = "empty"
                                              THEN "html" ELSE ph]
            /\ attempt' = attempt
            /\ pc' = [pc EXCEPT ![c] = "returned"]
            /\ result' = [result EXCEPT ![c] = items]

\* fetch(query, max_retries): the first iteration of the feed loop
FetchStart(c, q, m) ==
    /\ pc[c] = "idle"
    /\ query' = [query EXCEPT ![c] = q]
    /\ feedOut' = [feedOut EXCEPT ![c] = IF m >= 1 THEN "none" ELSE "empty"]
    /\ url' = url
    /\ role' = [role EXCEPT ![c] = "crawler"]
    /\ host' = [host EXCEPT ![c] = NyaaHost]
    /\ maxr' = [maxr EXCEPT ![c] = m]
    /\ IF m >= 1
       THEN /\ phase' = [phase EXCEPT ![c] = "rss"]
            /\ attempt' = [attempt EXCEPT ![c] = 1]
            /\ pc' = [pc EXCEPT ![c] = "acq_global"]
            /\ result' = result
       ELSE /\ phase' = [phase EXCEPT ![c] = "html"]
            /\ attempt' = attempt
            /\ pc' = [pc EXCEPT ![c] = "returned"]
            /\ result' = [result EXCEPT ![c] = "empty"]
    /\ UNCHANGED <<gBound, hBound, gsem, hsem, nreq, sleepFor, sleepKind, resp>>
    /\ UNCHANGED nonCallVars

\* (mutant) the backoff is indexed from 0: min(2**(attempt-1), 30)
HandleTransientFromZero(c) ==
    IF attempt[c] = maxr[c]
    THEN /\ pc' = [pc EXCEPT ![c] = "raised"]
         /\ result' = [result EXCEPT ![c] = "error"]
         /\ UNCHANGED <<sleepFor, sleepKind>>
    ELSE /\ pc' = [pc EXCEPT ![c] = "sleep"]
         /\ sleepFor' = [sleepFor EXCEPT ![c] = Min(Pow2(attempt[c] - 1), BackoffCap)]
         /\ sleepKind' = [sleepKind EXCEPT ![c] = "backoff"]
         /\ result' = result

\* the except clause: raise on the last attempt, else back off
HandleTransient(c) ==
    IF attempt[c] = maxr[c]
    THEN /\ pc' = [pc EXCEPT ![c] = "raised"]
         /\ result' = [result EXCEPT ![c] = "error"]
         /\ UNCHANGED <<sleepFor, sleepKind>>
    ELSE /\ pc' = [pc EXCEPT ![c] = "sleep"]
         /\ sleepFor' = [sleepFor EXCEPT ![c] = Min(Pow2(attempt[c]), BackoffCap)]
         /\ sleepKind' = [sleepKind EXCEPT ![c] = "backoff"]
         /\ result' = result

\* (mutant) the 429 branch sleeps inside the two async-with blocks
RespondRateLimitedHolding(c, h) ==
    /\ role[c] = "crawler" /\ pc[c] = "request"
    /\ UNCHANGED <<gsem, hsem>>
    /\ resp' = [resp EXCEPT ![c] = "429"]
    /\ pc' = [pc EXCEPT ![c] = "sleep"]
    /\ sleepFor' = [sleepFor EXCEPT ![c] =
                       IF h = "absent" THEN DefaultRetryAfter ELSE ParseInt(h)]
    /\ sleepKind' = [sleepKind EXCEPT ![c] = "retry_after"]
    /\ UNCHANGED <<gBound, hBound, role, host, phase, attempt, maxr, nreq, result>>
    /\ UNCHANGED nonCallVars
    /\ UNCHANGED fetchVars

\* response.status_code == 429 with a Retry-After header int() accepts (or
\* none): asyncio.sleep(retry_after), continue
RespondRateLimited(c, h) ==
    /\ role[c] = "crawler" /\ pc[c] = "request"
    /\ ReleaseBoth(c)
    /\ resp' = [resp EXCEPT ![c] = "429"]
    /\ pc' = [pc EXCEPT ![c] = "sleep"]
    /\ sleepFor' = [sleepFor EXCEPT ![c] =
                       IF h = "absent" THEN DefaultRetryAfter ELSE ParseInt(h)]
    /\ sleepKind' = [sleepKind EXCEPT ![c] = "retry_after"]
    /\ UNCHANGED <<gBound, hBound, role, host, phase, attempt, maxr, nreq, result>>
    /\ UNCHANGED nonCallVars
    /\ UNCHANGED fetchVars

\* an exception the except clause names: httpx.HTTPError (a transport error
\* inside the governed section, or raise_for_status), or ValueError (raised by
\* the parser, or by int() on a 429 whose Retry-After is not an integer)
ErrorKinds == {"http_error", "value_error"}

RespondError(c, kind) ==
    /\ role[c] = "crawler" /\ pc[c] = "request"
    /\ ReleaseBoth(c)
    /\ resp' = [resp EXCEPT ![c] = kind]
    /\ HandleTransient(c)
    /\ UNCHANGED <<gBound, hBound, role, host, phase, attempt, maxr, nreq>>
    /\ UNCHANGED nonCallVars
    /\ UNCHANGED fetchVars

\* an exception the except clause does not name (for instance the XML
\* parser's ParseError) leaves fetch at once
RespondFatal(c) ==
    /\ role[c] = "crawler" /\ pc[c] = "request"
    /\ ReleaseBoth(c)
    /\ resp' = [resp EXCEPT ![c] = "fatal"]
    /\ pc' = [pc EXCEPT ![c] = "raised"]
    /\ result' = [result EXCEPT ![c] = "fatal"]
    /\ UNCHANGED <<gBound, hBound, role, host, phase, attempt, maxr, nreq,
                   sleepFor, sleepKind>>
    /\ UNCHANGED nonCallVars
    /\ UNCHANGED fetchVars

\* a 2xx response: items = parser(response); return items
RespondOk(c, items) ==
    /\ role[c] = "crawler" /\ pc[c] = "request"
    /\ ReleaseBoth(c)
    /\ resp' = [resp EXCEPT ![c] = "ok"]
    /\ AfterReturn(c, phase[c], items)
    /\ UNCHANGED <<gBound, hBound, role, host, maxr, nreq, sleepFor, sleepKind,
                   query, url>>
    /\ UNCHANGED nonCallVars

\* (mutant) a loop that ends on a 429 raises instead of returning []
WakeRaises(c) ==
    /\ role[c] = "crawler" /\ pc[c] = "sleep"
    /\ sleepFor' = [sleepFor EXCEPT ![c] = 0]
    /\ sleepKind' = [sleepKind EXCEPT ![c] = "none"]
    /\ IF attempt[c] < maxr[c]
       THEN /\ attempt' = [attempt EXCEPT ![c] = @ + 1]
            /\ pc' = [pc EXCEPT ![c] = "acq_global"]
            /\ UNCHANGED <<phase, result, feedOut>>
       ELSE /\ pc' = [pc EXCEPT ![c] = "raised"]
            /\ result' = [result EXCEPT ![c] = "error"]
            /\ UNCHANGED <<phase, attempt, feedOut>>
    /\ UNCHANGED <<gBound, hBound, gsem, hsem, role, host, maxr, nreq, resp,
                   query, url>>
    /\ UNCHANGED nonCallVars

\* (mutant) the loop runs once more than max_retries: range(1, max_retries + 2)
WakeOneMore(c) ==
    /\ role[c] = "crawler" /\ pc[c] = "sleep"
    /\ sleepFor' = [sleepFor EXCEPT ![c] = 0]
    /\ sleepKind' = [sleepKind EXCEPT ![c] = "none"]
    /\ IF attempt[c] <= maxr[c]
       THEN /\ attempt' = [attempt EXCEPT ![c] = @ + 1]
            /\ pc' = [pc EXCEPT ![c] = "acq_global"]
            /\ UNCHANGED <<phase, result, feedOut>>
       ELSE AfterReturn(c, phase[c], "empty")
    /\ UNCHANGED <<gBound, hBound, gsem, hsem, role, host, maxr, nreq, resp,
                   query, url>>
    /\ UNCHANGED nonCallVars

\* asyncio.sleep returns: the for loop takes its next value, and returns []
\* after the loop when there is none
Wake(c) ==
    /\ role[c] = "crawler" /\ pc[c] = "sleep"
    /\ sleepFor' = [sleepFor EXCEPT ![c] = 0]
    /\ sleepKind' = [sleepKind EXCEPT ![c] = "none"]
    /\ IF attempt[c] < maxr[c]
       THEN /\ attempt' = [attempt EXCEPT ![c] = @ + 1]
            /\ pc' = [pc EXCEPT ![c] = "acq_global"]
            /\ UNCHANGED <<phase, result, feedOut>>
       ELSE AfterReturn(c, phase[c], "empty")
    /\ UNCHANGED <<gBound, hBound, gsem, hsem, role, host, maxr, nreq, resp,
                   query, url>>
    /\ UNCHANGED nonCallVars

(***************************************************************************)
(* Downloader: TorrentDownloader.download.                                 *)
(***************************************************************************)
\* download(url, ...): domain = urlparse(url).netloc or "torrent_download"
DownloadStart(c, h) ==
    /\ pc[c] = "idle"
    /\ role' = [role EXCEPT ![c] = "downloader"]
    /\ host' = [host EXCEPT ![c] = h]
    /\ pc' = [pc EXCEPT ![c] = "acq_global"]
    /\ UNCHANGED <<gBound, hBound, gsem, hsem, phase, attempt, maxr, nreq,
                   sleepFor, sleepKind, resp, result>>
    /\ UNCHANGED nonCallVars
    /\ UNCHANGED fetchVars

\* download without its `if not content: raise ValueError`
DownloadRespondUnchecked(c, body) ==
    /\ role[c] = "downloader" /\ pc[c] = "request"
    /\ ReleaseBoth(c)
    /\ resp' = [resp EXCEPT ![c] = body]
    /\ IF body \in {"content", "empty"}
       THEN pc' = [pc EXCEPT ![c] = "write"] /\ result' = result
       ELSE /\ pc' = [pc EXCEPT ![c] = "raised"]
            /\ result' = [result EXCEPT ![c] = "error"]
    /\ UNCHANGED <<gBound, hBound, role, host, phase, attempt, maxr, nreq,
                   sleepFor, sleepKind>>
    /\ UNCHANGED nonCallVars
    /\ UNCHANGED fetchVars

\* the response of self._client.get(url): a transport error or an error
\* status raises, an empty body raises ValueError, else the file is written
DownloadRespond(c, body) ==
    /\ role[c] = "downloader" /\ pc[c] = "request"
    /\ ReleaseBoth(c)
    /\ resp' = [resp EXCEPT ![c] = body]
    /\ IF body = "content"
       THEN pc' = [pc EXCEPT ![c] = "write"] /\ result' = result
       ELSE /\ pc' = [pc EXCEPT ![c] = "raised"]
            /\ result' = [result EXCEPT ![c] = "error"]
    /\ UNCHANGED <<gBound, hBound, role, host, phase, attempt, maxr, nreq,
                   sleepFor, sleepKind>>
    /\ UNCHANGED nonCallVars
    /\ UNCHANGED fetchVars

\* a file of the destination directory
NoFile == [exists |-> FALSE, data |-> <<>>]
File(data) == [exists |-> TRUE, data |-> data]

\* the bytes of a response body, written in two pieces; the content tells
\* which download (or, with 0, which earlier one) it came from
Content(c) == <<c, c>>
OldContent == Content(0)

\* what the write changes beside the caller's own position
writeFrame == <<gBound, hBound, gsem, hsem, role, host, phase, attempt, maxr,
                nreq, sleepFor, sleepKind, resp>>
nonFileVars == <<trackVars, storeVars, scanVars, queryVars, schedVars, filterVars,
                 mapperVars, exportVars>>

\* _write writing under the final name itself: open(filepath, "wb"), write
WriteInPlace(c) ==
    /\ role[c] = "downloader" /\ pc[c] = "write"
    /\ IF ~tmp[c].exists
       THEN /\ tmp' = [tmp EXCEPT ![c] = File(<<>>)]
            /\ dest' = File(<<>>)
       ELSE /\ Len(tmp[c].data) < Len(Content(c))
            /\ tmp' = [tmp EXCEPT ![c] = File(Append(@.data, c))]
            /\ dest' = File(Append(tmp[c].data, c))
    /\ UNCHANGED <<pc, result>>
    /\ UNCHANGED writeFrame
    /\ UNCHANGED nonFileVars
    /\ UNCHANGED fetchVars

\* _write, in the executor thread, up to the rename: NamedTemporaryFile(dir=
\* filepath.parent, delete=False) creates a file of its own name, tmp.write
\* fills it
WriteTemp(c) ==
    /\ role[c] = "downloader" /\ pc[c] = "write"
    /\ IF ~tmp[c].exists
       THEN tmp' = [tmp EXCEPT ![c] = File(<<>>)]
       ELSE /\ Len(tmp[c].data) < Len(Content(c))
            /\ tmp' = [tmp EXCEPT ![c] = File(Append(@.data, c))]
    /\ UNCHANGED <<pc, result, dest>>
    /\ UNCHANGED writeFrame
    /\ UNCHANGED nonFileVars
    /\ UNCHANGED fetchVars

\* _write is interrupted before the rename (the directory cannot be made, the
\* disk is full): the error leaves download; a temporary file stays behind
WriteFails(c) ==
    /\ role[c] = "downloader" /\ pc[c] = "write"
    /\ pc' = [pc EXCEPT ![c] = "raised"]
    /\ result' = [result EXCEPT ![c] = "error"]
    /\ UNCHANGED <<dest, tmp>>
    /\ UNCHANGED writeFrame
    /\ UNCHANGED nonFileVars
    /\ UNCHANGED fetchVars

\* os.replace(temp_name, filepath) and the end of
\* await write_bytes_atomically(filepath, content); return filepath
WriteDone(c) ==
    /\ role[c] = "downloader" /\ pc[c] = "write"
    /\ tmp[c].exists /\ tmp[c].data = Content(c)
    /\ dest' = tmp[c]
    /\ tmp' = [tmp EXCEPT ![c] = NoFile]
    /\ pc' = [pc EXCEPT ![c] = "returned"]
    /\ result' = [result EXCEPT ![c] = "path"]
    /\ UNCHANGED writeFrame
    /\ UNCHANGED nonFileVars
    /\ UNCHANGED fetchVars

\* the destination directory before any download of the file: the file is
\* not there, or an earlier download left it
FilesIdle ==
    /\ dest \in {NoFile, File(OldContent)}
    /\ tmp = [c \in Callers |-> NoFile]

FilesParked ==
    /\ dest = NoFile
    /\ FilesIdle

(***************************************************************************)
(* Task tracker: TaskTracker and track_task (core/task_tracker.py), and    *)
(* the task_history collection (TaskHistoryRepository).                    *)
(***************************************************************************)
Runs == {1, 2}
\* tracker.result: None, {} or a payload
ResultPayloads == {"empty", "payload"}
\* str(exc) of the errors a wrapped operation raises
ErrorTexts == {"boom"}
\* the error raised by tracker.complete itself
CompleteError == "complete_error"

NoRow == [status |-> "absent", result |-> "empty", error |-> "none",
          items_processed |-> 0, items_succeeded |-> 0, items_failed |-> 0]

\* TaskHistoryDocument(status="running", ...): result defaults to {}, error to
\* None and the counters to 0
NewRow == [status |-> "running", result |-> "empty", error |-> "none",
           items_processed |-> 0, items_succeeded |-> 0, items_failed |-> 0]

\* TaskHistoryRepository.update(task_id, updates): find_one_and_update with
\* $set, whatever the current status is; nothing when no row has the task id
RepoUpdate(doc, updates) ==
    IF doc.status = "absent" THEN doc
    ELSE [f \in DOMAIN doc |-> IF f \in DOMAIN updates THEN updates[f] ELSE doc[f]]

\* `tracker.result or {}` and, in complete, `result or {}`
OrEmpty(res) == IF res = "none" THEN "empty" ELSE res

\* (mutant) complete forgets the attached result payload
CompleteUpdatesNoResult(r) ==
    [status |-> "completed", result |-> "empty",
     items_processed |-> items_processed[r],
     items_succeeded |-> items_succeeded[r],
     items_failed |-> items_failed[r]]

\* the updates TaskTracker.complete sends
CompleteUpdates(r) ==
    [status |-> "completed", result |-> OrEmpty(OrEmpty(trResult[r])),
     items_processed |-> items_processed[r],
     items_succeeded |-> items_succeeded[r],
     items_failed |-> items_failed[r]]

\* the updates TaskTracker.fail sends
FailUpdates(r, error) ==
    [status |-> "failed", error |-> error,
     items_processed |-> items_processed[r],
     items_succeeded |-> items_succeeded[r],
     items_failed |-> items_failed[r]]

\* tracker = TaskTracker(...); await tracker.start(); yield tracker
TrackStart(r) ==
    /\ tpc[r] = "new"
    /\ row' = [row EXCEPT ![r] = NewRow]
    /\ tpc' = [tpc EXCEPT ![r] = "body"]
    /\ UNCHANGED <<items_processed, items_succeeded, items_failed, trResult, exc,
                   outcome>>

\* the wrapped operation returned (also an early return): track_task goes on
\* to tracker.complete
BodyReturns(r) ==
    /\ tpc' = [tpc EXCEPT ![r] = "complete"]
    /\ UNCHANGED <<row, items_processed, items_succeeded, items_failed, trResult,
                   exc, outcome>>

\* an Exception escaped the wrapped operation: except Exception as exc
BodyRaises(r, error) ==
    /\ tpc' = [tpc EXCEPT ![r] = "fail"]
    /\ exc' = [exc EXCEPT ![r] = error]
    /\ UNCHANGED <<row, items_processed, items_succeeded, items_failed, trResult,
                   outcome>>

\* the coroutine was cancelled inside the wrapped operation: CancelledError
\* is a BaseException, which `except Exception` does not catch, so it leaves
\* track_task with neither complete nor fail called
BodyCancelled(r) ==
    /\ tpc' = [tpc EXCEPT ![r] = "done"]
    /\ outcome' = [outcome EXCEPT ![r] = "CancelledError"]
    /\ UNCHANGED <<row, items_processed, items_succeeded, items_failed, trResult,
                   exc>>

\* await tracker.complete(tracker.result or {}), inside the try block:
\*   how = "ok"           the update is applied and complete returns
\*   how = "raise_before" repo.update raises and nothing is written
\*   how = "raise_after"  the update is applied and complete raises after it
\*                        (the reply of the update is lost, or the logger call
\*                        that follows it raises)
\* an error raised by complete is caught by `except Exception`
Complete(r, how) ==
    /\ tpc[r] = "complete"
    /\ row' = [row EXCEPT ![r] = IF how = "raise_before" THEN @
                                 ELSE RepoUpdate(@, CompleteUpdates(r))]
    /\ IF how = "ok"
       THEN /\ tpc' = [tpc EXCEPT ![r] = "done"]
            /\ outcome' = [outcome EXCEPT ![r] = "returned"]
            /\ exc' = exc
       ELSE /\ tpc' = [tpc EXCEPT ![r] = "fail"]
            /\ exc' = [exc EXCEPT ![r] = CompleteError]
            /\ outcome' = outcome
    /\ UNCHANGED <<items_processed, items_succeeded, items_failed, trResult>>

\* except Exception as exc: await tracker.fail(str(exc)); raise
Fail(r) ==
    /\ tpc[r] = "fail"
    /\ row' = [row EXCEPT ![r] = RepoUpdate(@, FailUpdates(r, exc[r]))]
    /\ tpc' = [tpc EXCEPT ![r] = "done"]
    /\ outcome' = [outcome EXCEPT ![r] = exc[r]]
    /\ UNCHANGED <<items_processed, items_succeeded, items_failed, trResult, exc>>

TrackIdle ==
    /\ tpc = [r \in Runs |-> "new"]
    /\ row = [r \in Runs |-> NoRow]
    /\ items_processed = [r \in Runs |-> 0]
    /\ items_succeeded = [r \in Runs |-> 0]
    /\ items_failed = [r \in Runs |-> 0]
    /\ trResult = [r \in Runs |-> "none"]
    /\ exc = [r \in Runs |-> "none"]
    /\ outcome = [r \in Runs |-> "none"]

(***************************************************************************)
(* A generic wrapped operation: any use of the tracker's interface inside  *)
(* `async with track_task(...) as tracker` (sync_anilist_catalog, the job  *)
(* wrapper of the API, the scan).                                          *)
(***************************************************************************)
\* tracker.increment_processed()
IncrementProcessed(r) ==
    /\ tpc[r] = "body" /\ items_processed[r] < MaxCount
    /\ items_processed' = [items_processed EXCEPT ![r] = @ + 1]
    /\ UNCHANGED <<tpc, row, items_succeeded, items_failed, trResult, exc, outcome>>
    /\ UNCHANGED nonTrackVars

\* tracker.increment_succeeded()
IncrementSucceeded(r) ==
    /\ tpc[r] = "body" /\ items_succeeded[r] < MaxCount
    /\ items_succeeded' = [items_succeeded EXCEPT ![r] = @ + 1]
    /\ UNCHANGED <<tpc, row, items_processed, items_failed, trResult, exc, outcome>>
    /\ UNCHANGED nonTrackVars

\* tracker.increment_failed()
IncrementFailed(r) ==
    /\ tpc[r] = "body" /\ items_failed[r] < MaxCount
    /\ items_failed' = [items_failed EXCEPT ![r] = @ + 1]
    /\ UNCHANGED <<tpc, row, items_processed, items_succeeded, trResult, exc, outcome>>
    /\ UNCHANGED nonTrackVars

\* tracker.set_result(result)
SetResult(r, res) ==
    /\ tpc[r] = "body"
    /\ trResult' = [trResult EXCEPT ![r] = res]
    /\ UNCHANGED <<tpc, row, items_processed, items_succeeded, items_failed, exc,
                   outcome>>
    /\ UNCHANGED nonTrackVars

TaskStart(r) == TrackStart(r) /\ UNCHANGED nonTrackVars
TaskReturns(r) == tpc[r] = "body" /\ BodyReturns(r) /\ UNCHANGED nonTrackVars
TaskRaises(r, error) == tpc[r] = "body" /\ BodyRaises(r, error) /\ UNCHANGED nonTrackVars
TaskCancelled(r) == tpc[r] = "body" /\ BodyCancelled(r) /\ UNCHANGED nonTrackVars
TaskComplete(r, how) == Complete(r, how) /\ UNCHANGED nonTrackVars
TaskFail(r) == Fail(r) /\ UNCHANGED nonTrackVars

\* one tracked task with a generic wrapped operation
TaskNext ==
    \/ TaskStart(1)
    \/ IncrementProcessed(1)
    \/ IncrementSucceeded(1)
    \/ IncrementFailed(1)
    \/ \E res \in ResultPayloads : SetResult(1, res)
    \/ TaskReturns(1)
    \/ \E error \in ErrorTexts : TaskRaises(1, error)
    \/ TaskCancelled(1)
    \/ \E how \in {"ok", "raise_before", "raise_after"} : TaskComplete(1, how)
    \/ TaskFail(1)

(***************************************************************************)
(* Dedup store: TorrentSeenRepository over the collection torrents_seen.   *)
(***************************************************************************)
TitleIds == {1, 2}
Links == {"l1", "l2", "l3"}
Hashes == {"h1", "h2"}
\* an item without infohash (infohash=None)
NoHash == "null"
\* the infohash of the torrent a link points to: l1 and l2 are two links of
\* the same torrent
HashOf == [l \in Links |-> IF l = "l3" THEN "h2" ELSE "h1"]

\* TorrentSeenDocument(...).model_dump(): the fields the indexes and the
\* queries use, the export flag, and the identity of the inserted row
SeenDoc(r, t, l, h, e) ==
    [anilist_id |-> t, link |-> l, infohash |-> h, exported |-> e, by |-> r]

NoDoc == [anilist_id |-> 0, link |-> "none", infohash |-> NoHash,
          exported |-> "False", by |-> 0]

\* the filter of mark_seen's find_one_and_update: {anilist_id, link}
Matches(store, doc) ==
    \E d \in store : d.anilist_id = doc.anilist_id /\ d.link = doc.link

\* ensure_indexes: create_index([("anilist_id", 1), ("link", 1)], unique=True)
KeyIndexed(store, doc) ==
    \E d \in store : d.anilist_id = doc.anilist_id /\ d.link = doc.link

\* (mutant) the index on infohash is not unique
HashIndexedNever(store, doc) == FALSE

\* ensure_indexes: create_index("infohash", unique=True, sparse=True)
HashIndexed(store, doc) ==
    /\ doc.infohash # NoHash
    /\ \E d \in store : d.infohash = doc.infohash

\* (mutant) ensure_indexes was never run: no unique index rejects an insert
IndexConflictNever(store, doc) == FALSE

\* an insert of doc violates a unique index of the collection
IndexConflict(store, doc) == KeyIndexed(store, doc) \/ HashIndexed(store, doc)

\* (mutant) exists asks for the infohash and the link to match
ExistsBothMatch(store, t, h, l) ==
    \E d \in store :
        /\ d.anilist_id = t
        /\ h # NoHash /\ d.infohash = h
        /\ d.link = l

\* TorrentSeenRepository.exists: count_documents({anilist_id, $or: [{infohash},
\* {link}]}), the infohash alternative only for a truthy infohash
Exists(store, t, h, l) ==
    \E d \in store :
        /\ d.anilist_id = t
        /\ \/ h # NoHash /\ d.infohash = h
           \/ d.link = l

\* mark_seen, first half: find_one_and_update looks for a row matching the
\* filter; $setOnInsert changes nothing in a row that exists
MarkSeenFind(r, doc) ==
    /\ msDoc' = [msDoc EXCEPT ![r] = doc]
    /\ msState' = [msState EXCEPT ![r] = IF Matches(seen, doc) THEN "returned"
                                         ELSE "inserting"]
    /\ seen' = seen

\* mark_seen, second half: the upsert inserts under the unique indexes. A row
\* another call inserted meanwhile under the same (anilist_id, link) makes the
\* server retry the upsert as an update (how = "retry") unless the violation
\* is reported on the infohash index; that one reaches the caller as
\* DuplicateKeyError
MarkSeenInsert(r, how) ==
    /\ msState[r] = "inserting"
    /\ msDoc' = msDoc
    /\ IF ~IndexConflict(seen, msDoc[r])
       THEN /\ seen' = seen \cup {msDoc[r]}
            /\ msState' = [msState EXCEPT ![r] = "returned"]
       ELSE /\ seen' = seen
            /\ msState' = [msState EXCEPT ![r] =
                  IF KeyIndexed(seen, msDoc[r])
                     /\ (how = "retry" \/ ~HashIndexed(seen, msDoc[r]))
                  THEN "returned" ELSE "DuplicateKeyError"]

StoreIdle ==
    /\ seen = {}
    /\ msDoc = [r \in Runs |-> NoDoc]
    /\ msState = [r \in Runs |-> "idle"]

\* direct calls of the repository, from two concurrent callers
StoreMarkSeenFind(r, t, l) ==
    /\ msState[r] # "inserting"
    /\ MarkSeenFind(r, SeenDoc(r, t, l, HashOf[l], "False"))
    /\ UNCHANGED <<nonScanVars, trackVars, scanVars>>

StoreMarkSeenInsert(r, how) ==
    /\ MarkSeenInsert(r, how)
    /\ UNCHANGED <<nonScanVars, trackVars, scanVars>>

(***************************************************************************)
(* scan_nyaa_sources: one run walks the enabled profiles, crawls each one, *)
(* and for every item that passes the filters asks the store, downloads,   *)
(* builds the TorrentSeenDocument and records it.  A step ends at an await *)
(* that touches the store or ends the run; the awaits between them touch   *)
(* nothing the two runs share.                                             *)
(***************************************************************************)
\* an upstream item: its link, its infohash (or none) and the profiles whose
\* filters it passes (matches_filters)
Candidate(l, h, p) == [link |-> l, infohash |-> h, pass |-> p]

CandidatePool ==
    {Candidate("l1", "h1", TitleIds), Candidate("l2", "h1", {2}),
     Candidate("l1", NoHash, TitleIds)}

Feeds ==
    {<<>>} \cup {<<a>> : a \in CandidatePool}
           \cup {<<a, b>> : a \in CandidatePool, b \in CandidatePool}

\* settings_repo.list_enabled()
EnabledLists == {<<>>, <<1, 2>>}

\* config_repo.get(): no record, a record with the export switched off (or
\* without the two switches, read with .get(..., False)), a record with
\* qbittorrent_enabled and auto_add_to_qbittorrent
ConfigKinds == {"none", "disabled", "enabled"}

\* should_auto_add = qbit_enabled and qbit_client and path_mapper, with
\* qbit_enabled = app_config and app_config.get(..) and app_config.get(..):
\* None without a record, False when switched off, else the PathMapper object
ShouldAutoAdd(c) ==
    CASE c = "none" -> "None"
      [] c = "disabled" -> "False"
      [] c = "enabled" -> "PathMapper"

\* TorrentSeenDocument(...) validates: infohash: str is required and
\* exported_to_qbittorrent: bool takes neither None nor an object
DocValid(item, saa) == item.infohash # NoHash /\ saa \in {"True", "False"}

ScanIdle ==
    /\ enabled \in EnabledLists
    /\ feed \in Feeds
    /\ cfg \in ConfigKinds
    /\ spc = [r \in Runs |-> "idle"]
    /\ ti = [r \in Runs |-> 0]
    /\ ii = [r \in Runs |-> 0]
    /\ total_downloaded = [r \in Runs |-> 0]
    /\ total_failed = [r \in Runs |-> 0]
    /\ downloaded = [r \in Runs |-> {}]
    /\ pred = [r \in Runs |-> {}]
    /\ titleOut = [r \in Runs |-> [t \in TitleIds |-> "none"]]
    /\ added = [r \in Runs |-> "none"]

\* the scan is not running: what SpecGov, SpecFetch, SpecTask and SpecStore
\* keep of it
ScanParked ==
    /\ ScanIdle
    /\ enabled = <<>>
    /\ feed = <<>>
    /\ cfg = "none"

\* the function returns: if qbit_client: close; tracker.set_result(totals);
\* track_task goes on to tracker.complete
ScanReturn(r, res) ==
    /\ spc' = [spc EXCEPT ![r] = "ended"]
    /\ ti' = [ti EXCEPT ![r] = 0]
    /\ ii' = [ii EXCEPT ![r] = 0]
    /\ trResult' = [trResult EXCEPT ![r] = res]
    /\ tpc' = [tpc EXCEPT ![r] = "complete"]
    /\ exc' = exc

\* an exception leaves the function: except Exception as exc in track_task
ScanRaise(r, error) ==
    /\ spc' = [spc EXCEPT ![r] = "ended"]
    /\ ti' = [ti EXCEPT ![r] = 0]
    /\ ii' = [ii EXCEPT ![r] = 0]
    /\ trResult' = trResult
    /\ tpc' = [tpc EXCEPT ![r] = "fail"]
    /\ exc' = [exc EXCEPT ![r] = error]

\* `continue` of for entry in enabled_settings, or its end
NextTitle(r) ==
    IF ti[r] < Len(enabled)
    THEN /\ spc' = [spc EXCEPT ![r] = "title"]
         /\ ti' = [ti EXCEPT ![r] = @ + 1]
         /\ ii' = [ii EXCEPT ![r] = 0]
         /\ UNCHANGED <<trResult, tpc, exc>>
    ELSE ScanReturn(r, "totals")

\* `continue` of for item in items, or its end
NextItem(r) ==
    IF ii[r] < Len(feed)
    THEN /\ spc' = [spc EXCEPT ![r] = "item"]
         /\ ii' = [ii EXCEPT ![r] = @ + 1]
         /\ UNCHANGED <<ti, trResult, tpc, exc>>
    ELSE NextTitle(r)

\* (mutant) a failure is added to the run's total and not to the tracker
CountFailedTotalOnly(r) ==
    /\ total_failed' = [total_failed EXCEPT ![r] = @ + 1]
    /\ items_failed' = items_failed

\* total_failed += 1; tracker.increment_failed()
CountFailed(r) ==
    /\ total_failed' = [total_failed EXCEPT ![r] = @ + 1]
    /\ items_failed' = [items_failed EXCEPT ![r] = @ + 1]

\* async with track_task(...): tracker.start() creates the row; then
\* list_enabled, the early return, config_repo.get()
ScanStart(r) ==
    /\ tpc[r] = "new" /\ spc[r] = "idle"
    /\ row' = [row EXCEPT ![r] = NewRow]
    /\ pred' = [pred EXCEPT ![r] = {q \in Runs : tpc[q] = "done"}]
    /\ IF enabled = <<>>
       THEN ScanReturn(r, "no_enabled_settings")
       ELSE /\ spc' = [spc EXCEPT ![r] = "title"]
            /\ ti' = [ti EXCEPT ![r] = 1]
            /\ tpc' = [tpc EXCEPT ![r] = "body"]
            /\ UNCHANGED <<ii, trResult, exc>>
    /\ UNCHANGED <<items_processed, items_succeeded, items_failed, outcome,
                   total_downloaded, total_failed, downloaded, cfg, enabled, feed,
                   titleOut>>
    /\ UNCHANGED <<storeVars, nonScanVars>>

\* what one entry can meet before its items are looked at:
\*   no_query           `if not query: continue`, before increment_processed
\*   template_empty     save_path_template rendered to "": continue
\*   no_save_path       neither template nor save_path: continue
\*   ValueError         ensure_directory: the path exists, not a directory
\*   FileNotFoundError  ensure_directory: the path is missing and
\*                      create_missing_save_dirs is off
\*   OSError            ensure_directory: path.mkdir raises
\*   fetch_error        nyaa_client.fetch raised
\*   items              fetch returned the upstream items
\* and, when the fetch is carried out by a crawler,
\*   no_items           fetch returned [] although upstream has items
TitleOutcomes ==
    {"no_query", "template_empty", "no_save_path", "ValueError", "FileNotFoundError",
     "OSError", "fetch_error", "items"}

\* (mutant) a failed crawl is skipped without being counted
CountedOutcomesNoCrawl == {"ValueError"}

\* the outcomes handled by an except clause that counts a failure:
\* `except ValueError` around ensure_directory, `except Exception` around fetch
CountedOutcomes == {"ValueError", "fetch_error"}

\* (mutant) an empty rendered template raises instead of `continue`
EscapingOutcomesAndTemplate == {"FileNotFoundError", "OSError", "template_empty"}

\* the errors of ensure_directory that `except ValueError` does not catch
EscapingOutcomes == {"FileNotFoundError", "OSError"}

\* one entry of enabled_settings up to the item loop
ScanTitleBody(r, out) ==
    /\ tpc[r] = "body" /\ spc[r] = "title"
    /\ titleOut' = [titleOut EXCEPT ![r][enabled[ti[r]]] = out]
    /\ items_processed' = [items_processed EXCEPT ![r] =
                              IF out = "no_query" THEN @ ELSE @ + 1]
    /\ IF out \in CountedOutcomes
       THEN CountFailed(r)
       ELSE UNCHANGED <<total_failed, items_failed>>
    /\ CASE out \in EscapingOutcomes -> ScanRaise(r, out)
         [] out = "items" /\ feed # <<>> ->
               /\ spc' = [spc EXCEPT ![r] = "item"]
               /\ ii' = [ii EXCEPT ![r] = 1]
               /\ UNCHANGED <<ti, trResult, tpc, exc>>
         [] OTHER -> NextTitle(r)
    /\ UNCHANGED <<row, items_succeeded, outcome, total_downloaded, downloaded,
                   cfg, pred, enabled, feed>>
    /\ UNCHANGED storeVars

ScanTitle(r, out) ==
    /\ ScanTitleBody(r, out)
    /\ UNCHANGED nonScanVars

\* (mutant) the release is recorded before it is downloaded
ScanItemMarksFirst(r) ==
    /\ tpc[r] = "body" /\ spc[r] = "item"
    /\ LET item == feed[ii[r]]
           t == enabled[ti[r]]
       IN IF t \in item.pass /\ ~Exists(seen, t, item.infohash, item.link)
          THEN /\ spc' = [spc EXCEPT ![r] = "mark"]
               /\ msDoc' = [msDoc EXCEPT ![r] =
                               SeenDoc(r, t, item.link, item.infohash, "False")]
               /\ UNCHANGED <<ti, ii, trResult, tpc, exc>>
          ELSE NextItem(r) /\ msDoc' = msDoc
    /\ UNCHANGED <<row, items_processed, items_succeeded, items_failed, outcome,
                   total_downloaded, total_failed, downloaded, cfg, pred, titleOut,
                   enabled, feed, seen, msState>>
    /\ UNCHANGED nonScanVars

\* matches_filters(item, filters), then await torrent_repo.exists(...)
ScanItem(r) ==
    /\ tpc[r] = "body" /\ spc[r] = "item"
    /\ LET item == feed[ii[r]]
           t == enabled[ti[r]]
       IN IF t \in item.pass /\ ~Exists(seen, t, item.infohash, item.link)
          THEN /\ spc' = [spc EXCEPT ![r] = "download"]
               /\ UNCHANGED <<ti, ii, trResult, tpc, exc>>
          ELSE NextItem(r)
    /\ UNCHANGED <<row, items_processed, items_succeeded, items_failed, outcome,
                   total_downloaded, total_failed, downloaded, cfg, pred, titleOut, enabled,
                   feed>>
    /\ UNCHANGED <<storeVars, nonScanVars>>

\* what add_torrent can do: return True, return False (the sink answers with
\* an error status, the file is missing, a transport error), or raise
SinkAnswers == {"True", "False", "raised"}

\* (mutant) an error of the download is not caught and leaves the scan
DownloadFailedAborts(r) ==
    /\ ScanRaise(r, "download_error")
    /\ added' = [added EXCEPT ![r] = "none"]
    /\ UNCHANGED <<total_failed, items_failed>>
    /\ UNCHANGED <<total_downloaded, items_succeeded, downloaded, msDoc>>

\* except Exception around downloader.download: the error is logged and
\* counted, then `continue`
DownloadFailed(r) ==
    /\ CountFailed(r)
    /\ NextItem(r)
    /\ added' = [added EXCEPT ![r] = "none"]
    /\ UNCHANGED <<total_downloaded, items_succeeded, downloaded, msDoc>>

\* await downloader.download(...) has ended, with a path (ok) or an error; on
\* success the counters, the export when should_auto_add is truthy (its
\* errors are caught), and the construction of the TorrentSeenDocument,
\* which raises ValidationError
ScanDownloadBody(r, ok) ==
    /\ tpc[r] = "body" /\ spc[r] = "download"
    /\ LET item == feed[ii[r]]
           t == enabled[ti[r]]
           saa == ShouldAutoAdd(cfg)
       IN IF ~ok
          THEN DownloadFailed(r)
          ELSE /\ downloaded' = [downloaded EXCEPT ![r] = @ \cup {<<t, item.link>>}]
               /\ total_downloaded' = [total_downloaded EXCEPT ![r] = @ + 1]
               /\ items_succeeded' = [items_succeeded EXCEPT ![r] = @ + 1]
               /\ UNCHANGED <<total_failed, items_failed>>
               /\ IF saa = "PathMapper"
                  THEN \E answer \in SinkAnswers :
                           added' = [added EXCEPT ![r] = answer]
                  ELSE added' = [added EXCEPT ![r] = "none"]
               /\ IF DocValid(item, saa)
                  THEN /\ msDoc' = [msDoc EXCEPT ![r] =
                                      SeenDoc(r, t, item.link, item.infohash, saa)]
                       /\ spc' = [spc EXCEPT ![r] = "mark"]
                       /\ UNCHANGED <<ti, ii, trResult, tpc, exc>>
                  ELSE /\ msDoc' = msDoc
                       /\ ScanRaise(r, "ValidationError")
    /\ UNCHANGED <<row, items_processed, outcome, cfg, pred, titleOut, enabled, feed,
                   seen,
                   msState>>

ScanDownload(r, ok) ==
    /\ ScanDownloadBody(r, ok)
    /\ UNCHANGED <<govVars, callVars, queryVars, schedVars, fileVars, filterVars,
                   mapperVars>>

\* await torrent_repo.mark_seen(document): the lookup
ScanMarkFind(r) ==
    /\ tpc[r] = "body" /\ spc[r] = "mark"
    /\ MarkSeenFind(r, msDoc[r])
    /\ IF Matches(seen, msDoc[r])
       THEN NextItem(r)
       ELSE /\ spc' = [spc EXCEPT ![r] = "insert"]
            /\ UNCHANGED <<ti, ii, trResult, tpc, exc>>
    /\ UNCHANGED <<row, items_processed, items_succeeded, items_failed, outcome,
                   total_downloaded, total_failed, downloaded, cfg, pred, titleOut, enabled,
                   feed>>
    /\ UNCHANGED nonScanVars

\* await torrent_repo.mark_seen(document): the insert; DuplicateKeyError is
\* caught neither by the repository nor by the scan
ScanMarkInsert(r, how) ==
    /\ tpc[r] = "body" /\ spc[r] = "insert"
    /\ MarkSeenInsert(r, how)
    /\ IF msState'[r] = "DuplicateKeyError"
       THEN ScanRaise(r, "DuplicateKeyError")
       ELSE NextItem(r)
    /\ UNCHANGED <<row, items_processed, items_succeeded, items_failed, outcome,
                   total_downloaded, total_failed, downloaded, cfg, pred, titleOut, enabled,
                   feed>>
    /\ UNCHANGED nonScanVars

(***************************************************************************)
(* Query resolution: AnimeSettingsRepository.list_enabled and              *)
(* _build_search_query at the head of the scan loop.                       *)
(***************************************************************************)
\* a field that is absent or None
Null == "null"

\* a value Python takes as true in `if value`
Truthy(v) == v \notin {Null, ""}

NamePool == {"a", "b"}

\* search_query of a stored profile: absent (upsert dumps with
\* exclude_none), the empty string, or a query
QueryFields == {Null, "", "q"}

Settings ==
    [enabled : BOOLEAN, search_query : QueryFields,
     auto_query_from_synonyms : BOOLEAN]

SynonymLists ==
    {<<>>} \cup {<<a>> : a \in NamePool \cup {""}}
           \cup {<<a, b>> : a \in NamePool \cup {""}, b \in NamePool \cup {""}}

\* anime_map.get(anilist_id): no record of the title
NoAnime ==
    [present |-> FALSE, hasTitle |-> FALSE, romaji |-> Null, english |-> Null,
     native |-> Null, synonyms |-> <<>>]

\* the record of the title: its title dict (or none) and its synonyms
Animes ==
    {NoAnime}
    \cup [present : {TRUE}, hasTitle : {FALSE}, romaji : {Null}, english : {Null},
          native : {Null}, synonyms : SynonymLists]
    \cup [present : {TRUE}, hasTitle : {TRUE}, romaji : NamePool \cup {Null},
          english : NamePool \cup {Null}, native : {Null, "a"},
          synonyms : SynonymLists]

\* find({"enabled": True, "search_query": {"$ne": None}}): a record whose
\* search_query is absent or null does not match $ne None
Listed(s) == s.enabled /\ s.search_query # Null

RECURSIVE Dedup(_)
\* dict.fromkeys(values): the first occurrence of each value, in order
Dedup(values) ==
    IF values = <<>> THEN <<>>
    ELSE LET front == Dedup(SubSeq(values, 1, Len(values) - 1))
             last == values[Len(values)]
         IN IF \E k \in 1..Len(front) : front[k] = last
            THEN front
            ELSE Append(front, last)

\* titles = [romaji, english, native] + synonyms; the values that are truthy
KnownNames(a) ==
    LET titles == (IF a.hasTitle THEN <<a.romaji, a.english, a.native>> ELSE <<>>)
                  \o a.synonyms
    IN SelectSeq(titles, Truthy)

\* _build_search_query(setting, anime): a query is the sequence of the words
\* joined by " ", and <<>> stands for None
BuildSearchQuery(s, a) ==
    IF Truthy(s.search_query) THEN <<s.search_query>>
    ELSE IF s.auto_query_from_synonyms /\ a.present /\ KnownNames(a) # <<>>
         THEN Dedup(KnownNames(a))
         ELSE <<>>

\* enabled_settings = await settings_repo.list_enabled()
QueryList ==
    /\ qpc = "stored"
    /\ qpc' = IF Listed(setting) THEN "listed" ELSE "not_listed"
    /\ UNCHANGED <<setting, anime, effQuery>>
    /\ UNCHANGED <<coreVars, schedVars, fileVars, filterVars, mapperVars, exportVars>>

\* for entry in enabled_settings: query = _build_search_query(entry, anime);
\* if not query: continue; else the entry goes on to be crawled
QueryBuild ==
    /\ qpc = "listed"
    /\ effQuery' = BuildSearchQuery(setting, anime)
    /\ qpc' = IF effQuery' = <<>> THEN "skipped" ELSE "crawled"
    /\ UNCHANGED <<setting, anime>>
    /\ UNCHANGED <<coreVars, schedVars, fileVars, filterVars, mapperVars, exportVars>>

\* a stored profile and the record of its title
QueryIdle ==
    /\ setting \in Settings
    /\ anime \in Animes
    /\ qpc = "stored"
    /\ effQuery = <<>>

QueryParked ==
    /\ setting = [enabled |-> FALSE, search_query |-> Null,
                  auto_query_from_synonyms |-> FALSE]
    /\ anime = NoAnime
    /\ QueryIdle

(***************************************************************************)
(* Scheduler: SchedulerService.start / shutdown, the reload endpoint and   *)
(* the application lifespan, over the AsyncIOScheduler of the container.   *)
(***************************************************************************)
Handlers == {1, 2}
JobIds == {"sync_anilist", "scan_nyaa"}

\* the job a scheduled run belongs to
JobOf(r) == IF r = 1 THEN "sync_anilist" ELSE "scan_nyaa"

\* positions of track_task at which the job's coroutine has not finished
InFlight == {"body", "complete", "fail"}

\* add_job(..., id=id) without replace_existing: one more trigger
AddJobAgain(js, id) == [js EXCEPT ![id] = @ + 1]

\* add_job(..., id=id, replace_existing=True): the trigger with that id is
\* added, or replaces the one registered
AddJob(js, id) == [js EXCEPT ![id] = 1]

\* self._scheduler.shutdown(wait=False): the scheduler stops, its job store
\* (in memory) drops the triggers, and the executor does not wait for the
\* futures of the runs in flight: the asyncio executor cancels the ones it
\* tracks (cancels), another leaves them running
SchedulerShutdown(cancels) ==
    /\ schedRunning' = FALSE
    /\ jobs' = [id \in JobIds |-> 0]
    /\ shutHit' = [r \in Runs |->
                     IF tpc[r] \in InFlight
                     THEN (IF cancels THEN "cancel" ELSE "left")
                     ELSE shutHit[r]]

\* SchedulerService.shutdown(): no await inside
ServiceShutdown(cancels) ==
    /\ shutdown_requested' = TRUE
    /\ IF schedRunning
       THEN SchedulerShutdown(cancels)
       ELSE UNCHANGED <<schedRunning, jobs, shutHit>>

\* start() is called: await self.initialize() gives the loop away
StartCall(h) ==
    /\ hpc[h] = "idle"
    /\ hpc' = [hpc EXCEPT ![h] = "initialize"]
    /\ UNCHANGED <<schedRunning, jobs, indexed, shutHit, shutdown_requested>>
    /\ UNCHANGED <<coreVars, queryVars, fileVars, filterVars, mapperVars, exportVars>>

\* initialize() ends: an ensure_indexes raised (~ok) and start() is left, or
\* the indexes are ensured and, with no await in between, the two triggers
\* are registered and the scheduler started; starting a running scheduler
\* raises SchedulerAlreadyRunningError after the triggers were replaced
StartFinish(h, ok) ==
    /\ hpc[h] = "initialize"
    /\ hpc' = [hpc EXCEPT ![h] = "idle"]
    /\ IF ~ok
       THEN UNCHANGED <<schedRunning, jobs, indexed, shutdown_requested>>
       ELSE /\ indexed' = TRUE
            /\ jobs' = AddJob(AddJob(jobs, "sync_anilist"), "scan_nyaa")
            /\ IF schedRunning
               THEN UNCHANGED <<schedRunning, shutdown_requested>>
               ELSE /\ schedRunning' = TRUE
                    /\ shutdown_requested' = FALSE
    /\ UNCHANGED shutHit
    /\ UNCHANGED <<coreVars, queryVars, fileVars, filterVars, mapperVars, exportVars>>

\* await scheduler.shutdown()
Shutdown(h, cancels) ==
    /\ hpc[h] = "idle"
    /\ ServiceShutdown(cancels)
    /\ UNCHANGED <<indexed, hpc>>
    /\ UNCHANGED <<coreVars, queryVars, fileVars, filterVars, mapperVars, exportVars>>

\* POST /scheduler/reload: await scheduler.shutdown(); await scheduler.start()
Reload(h, cancels) ==
    /\ hpc[h] = "idle"
    /\ ServiceShutdown(cancels)
    /\ hpc' = [hpc EXCEPT ![h] = "initialize"]
    /\ UNCHANGED indexed
    /\ UNCHANGED <<coreVars, queryVars, fileVars, filterVars, mapperVars, exportVars>>

\* the lifespan ends: finally: await scheduler.shutdown(), and the container
\* goes on to close its clients
LifespanExit(h, cancels) ==
    /\ hpc[h] = "idle"
    /\ ServiceShutdown(cancels)
    /\ hpc' = [hpc EXCEPT ![h] = "closing"]
    /\ UNCHANGED indexed
    /\ UNCHANGED <<coreVars, queryVars, fileVars, filterVars, mapperVars, exportVars>>

\* build_container's finally, after the clients are closed: if
\* scheduler.running and not _shutdown_requested: scheduler.shutdown(wait=False)
ContainerExit(h, cancels) ==
    /\ hpc[h] = "closing"
    /\ hpc' = [hpc EXCEPT ![h] = "idle"]
    /\ IF schedRunning /\ ~shutdown_requested
       THEN SchedulerShutdown(cancels)
       ELSE UNCHANGED <<schedRunning, jobs, shutHit>>
    /\ UNCHANGED <<indexed, shutdown_requested>>
    /\ UNCHANGED <<coreVars, queryVars, fileVars, filterVars, mapperVars, exportVars>>

\* a registered trigger of the running scheduler fires: the executor starts
\* the job's coroutine, which enters track_task
Fire(r) ==
    /\ schedRunning /\ jobs[JobOf(r)] >= 1
    /\ TaskStart(r)

\* the steps of a scheduled run; a cancelled coroutine gets CancelledError
\* at the await it is suspended at
RunReturns(r) == shutHit[r] # "cancel" /\ TaskReturns(r)
RunRaises(r, error) == shutHit[r] # "cancel" /\ TaskRaises(r, error)
RunCancelled(r) == shutHit[r] = "cancel" /\ TaskCancelled(r)

\* SchedulerService.__init__
SchedIdle ==
    /\ schedRunning = FALSE
    /\ jobs = [id \in JobIds |-> 0]
    /\ indexed = FALSE
    /\ hpc = [h \in Handlers |-> "idle"]
    /\ shutHit = [r \in Runs |-> "no"]
    /\ shutdown_requested = FALSE

(***************************************************************************)
(* Filter engine: matches_filters (scraper/filters.py) with any_includes   *)
(* and any_excludes (core/utils.py).  A text is a sequence of characters;  *)
(* <<>> stands for an optional text that is None or empty, and 0 for a     *)
(* time that is None.                                                      *)
(***************************************************************************)
\* str.lower() and str.upper(), character by character
LowerChar(ch) == CASE ch = "A" -> "a" [] ch = "B" -> "b" [] OTHER -> ch
UpperChar(ch) == CASE ch = "a" -> "A" [] ch = "b" -> "B" [] OTHER -> ch
Lower(text) == [k \in 1..Len(text) |-> LowerChar(text[k])]
Upper(text) == [k \in 1..Len(text) |-> UpperChar(text[k])]

\* term in text
Contains(text, term) ==
    \E k \in 0..(Len(text) - Len(term)) : SubSeq(text, k + 1, k + Len(term)) = term

\* any_includes with any() in the place of all()
AnyIncludesOne(text, includes) ==
    \E k \in 1..Len(includes) : Contains(Lower(text), Lower(includes[k]))

\* any_includes(text, includes): all(term.lower() in text_lower ...)
AnyIncludes(text, includes) ==
    \A k \in 1..Len(includes) : Contains(Lower(text), Lower(includes[k]))

\* any_excludes comparing the terms as they are written
AnyExcludesExact(text, excludes) ==
    \E k \in 1..Len(excludes) : Contains(text, excludes[k])

\* any_excludes(text, excludes): any(term.lower() in text_lower ...)
AnyExcludes(text, excludes) ==
    \E k \in 1..Len(excludes) : Contains(Lower(text), Lower(excludes[k]))

\* the resolution test without its `and item.resolution`
ResolutionRejectsUnknown(it, cr) ==
    /\ cr.preferred_resolution # <<>>
    /\ Upper(it.resolution) # Upper(cr.preferred_resolution)

\* if criteria.preferred_resolution and item.resolution:
\*     if item.resolution.upper() != criteria.preferred_resolution.upper()
ResolutionRejects(it, cr) ==
    /\ cr.preferred_resolution # <<>> /\ it.resolution # <<>>
    /\ Upper(it.resolution) # Upper(cr.preferred_resolution)

\* if criteria.preferred_subgroup and item.subgroup:
\*     if item.subgroup.lower() != criteria.preferred_subgroup.lower()
SubgroupRejects(it, cr) ==
    /\ cr.preferred_subgroup # <<>> /\ it.subgroup # <<>>
    /\ Lower(it.subgroup) # Lower(cr.preferred_subgroup)

\* if item.published_at: before published_after, or after published_before
DateRejects(it, cr) ==
    /\ it.published_at # 0
    /\ \/ cr.published_after # 0 /\ it.published_at < cr.published_after
       \/ cr.published_before # 0 /\ it.published_at > cr.published_before

\* matches_filters(item, criteria)
MatchesFilters(it, cr) ==
    IF cr.includes # <<>> /\ ~AnyIncludes(it.title, cr.includes) THEN FALSE
    ELSE IF cr.excludes # <<>> /\ AnyExcludes(it.title, cr.excludes) THEN FALSE
    ELSE IF ResolutionRejects(it, cr) THEN FALSE
    ELSE IF SubgroupRejects(it, cr) THEN FALSE
    ELSE IF DateRejects(it, cr) THEN FALSE
    ELSE TRUE

TitlePool == {<<"A", "b">>, <<"a">>, <<"b">>, <<"c">>}
TermPool == {<<"a">>, <<"B">>}
TermLists ==
    {<<>>} \cup {<<s>> : s \in TermPool} \cup {<<s, t>> : s \in TermPool, t \in TermPool}
\* extracted and preferred resolution / subgroup tokens
TokenPool == {<<>>, <<"A">>, <<"b">>}
PreferencePool == {<<>>, <<"a">>}
\* publish times, and the bounds of a window
TimePool == {0, 1, 2, 3}
WindowPool == {0, 2}

Items ==
    [title : TitlePool, resolution : TokenPool, subgroup : TokenPool,
     published_at : TimePool]
Criterias ==
    [includes : TermLists, excludes : TermLists,
     preferred_resolution : PreferencePool, preferred_subgroup : PreferencePool,
     published_after : WindowPool, published_before : WindowPool]

\* matches_filters(item, criteria) is called
Match ==
    /\ matched = "none"
    /\ matched' = IF MatchesFilters(nyaaItem, criteria) THEN "True" ELSE "False"
    /\ UNCHANGED <<nyaaItem, criteria>>
    /\ UNCHANGED <<coreVars, queryVars, schedVars, fileVars, mapperVars, exportVars>>

FilterIdle ==
    /\ nyaaItem \in Items
    /\ criteria \in Criterias
    /\ matched = "none"

FilterParked ==
    /\ nyaaItem = [title |-> <<"a">>, resolution |-> <<>>, subgroup |-> <<>>,
                   published_at |-> 0]
    /\ criteria = [includes |-> <<>>, excludes |-> <<>>,
                   preferred_resolution |-> <<>>, preferred_subgroup |-> <<>>,
                   published_after |-> 0, published_before |-> 0]
    /\ FilterIdle

(***************************************************************************)
(* Path mapper: PathMapper (qbittorrent/path_mapper.py).  A path is its    *)
(* anchor (absolute or not) and its sequence of components, a component a  *)
(* sequence of characters.                                                 *)
(***************************************************************************)
PathOf(abs, parts) == [abs |-> abs, parts |-> parts]

RECURSIVE CharCount(_)
\* the characters of the components of a path
CharCount(parts) ==
    IF parts = <<>> THEN 0
    ELSE CharCount(SubSeq(parts, 1, Len(parts) - 1)) + Len(parts[Len(parts)])

\* len(str(path)): "/", ".", "/a/b", "a/b"
StrLen(p) ==
    IF p.parts = <<>> THEN 1
    ELSE CharCount(p.parts) + (IF p.abs THEN Len(p.parts) ELSE Len(p.parts) - 1)

\* path.relative_to(other) does not raise ValueError: the anchor and the
\* components of other are the leading ones of path
RelativeTo(p, other) ==
    /\ p.abs = other.abs
    /\ Len(other.parts) <= Len(p.parts)
    /\ SubSeq(p.parts, 1, Len(other.parts)) = other.parts

\* to_path / path.relative_to(from_path)
Rebase(p, m) ==
    PathOf(m.to.abs,
           m.to.parts \o SubSeq(p.parts, Len(m.from.parts) + 1, Len(p.parts)))

\* how many entries list.sort(key=len(str(from)), reverse=True) puts before
\* the entry at index k: the sort is stable, entries of equal length keep
\* their order
SortRank(ms, k) ==
    Cardinality({j \in 1..Len(ms) :
                    \/ StrLen(ms[j].from) > StrLen(ms[k].from)
                    \/ StrLen(ms[j].from) = StrLen(ms[k].from) /\ j < k})

\* __init__ without the sort
PathMapperUnsorted(ms) == ms

\* PathMapper(mappings): every entry is kept (a Path is never falsy), then
\* the list is sorted by the length of the source, longest first
PathMapperInit(ms) ==
    [n \in 1..Len(ms) |-> ms[CHOOSE k \in 1..Len(ms) : SortRank(ms, k) = n - 1]]

\* to_qbittorrent(backend_path): the first entry of _mappings the path is
\* relative to, else the path itself
ToQbittorrent(mp, p) ==
    IF \E k \in 1..Len(mp) : RelativeTo(p, mp[k].from)
    THEN LET first == CHOOSE k \in 1..Len(mp) :
                          /\ RelativeTo(p, mp[k].from)
                          /\ \A j \in 1..(k - 1) : ~RelativeTo(p, mp[j].from)
         IN Rebase(p, mp[first])
    ELSE p

\* components: "s", "d", "f", "sd", "media"
CompS == <<"s">>
CompD == <<"d">>
CompF == <<"f">>
CompSD == <<"s", "d">>
CompMedia == <<"m", "e", "d", "i", "a">>

SourcePool ==
    {PathOf(TRUE, <<CompS>>), PathOf(TRUE, <<CompS, CompD>>),
     PathOf(TRUE, <<CompMedia>>), PathOf(FALSE, <<>>)}
TargetPool == {PathOf(TRUE, <<CompD>>), PathOf(TRUE, <<CompF>>)}
MappingPool == [from : SourcePool, to : TargetPool]
MappingLists ==
    {<<>>} \cup {<<m>> : m \in MappingPool}
           \cup {<<m, n>> : m \in MappingPool, n \in MappingPool}
PathPool ==
    {PathOf(TRUE, <<CompS, CompD, CompF>>), PathOf(TRUE, <<CompS, CompF>>),
     PathOf(TRUE, <<CompS>>), PathOf(TRUE, <<CompSD, CompF>>),
     PathOf(TRUE, <<CompMedia, CompF>>), PathOf(TRUE, <<CompF>>),
     PathOf(FALSE, <<CompS, CompF>>)}

\* path_mapper = PathMapper(app_config.get("path_mappings", []))
MapperConstruct ==
    /\ mpc = "configured"
    /\ mapper' = PathMapperInit(mappings)
    /\ mpc' = "constructed"
    /\ UNCHANGED <<mappings, path, mapped>>
    /\ UNCHANGED <<coreVars, queryVars, schedVars, fileVars, filterVars, exportVars>>

\* path_mapper.to_qbittorrent(save_payload_path)
MapperTranslate ==
    /\ mpc = "constructed"
    /\ mapped' = ToQbittorrent(mapper, path)
    /\ mpc' = "translated"
    /\ UNCHANGED <<mappings, mapper, path>>
    /\ UNCHANGED <<coreVars, queryVars, schedVars, fileVars, filterVars, exportVars>>

\* a configured mapping table and a path to translate
MapperIdle ==
    /\ mappings \in MappingLists
    /\ path \in PathPool
    /\ mapper = <<>>
    /\ mapped = PathOf(FALSE, <<>>)
    /\ mpc = "configured"

MapperParked ==
    /\ mappings = <<>>
    /\ path = PathOf(TRUE, <<CompS>>)
    /\ MapperIdle

(***************************************************************************)
(* The scan's download call, carried out by a caller of the downloader.    *)
(***************************************************************************)
\* filepath = await downloader.download(str(item.link), ...): the call
ScanCallsDownload(r, c) ==
    /\ tpc[r] = "body" /\ spc[r] = "download"
    /\ DownloadStart(c, NyaaHost)

\* the call has ended and the scan goes on with what it returned or raised;
\* the ended call and its temporary file are followed no further
ScanAwaitsDownload(r, c) ==
    /\ role[c] = "downloader" /\ pc[c] \in {"returned", "raised"}
    /\ ScanDownloadBody(r, pc[c] = "returned")
    /\ role' = [role EXCEPT ![c] = "none"]
    /\ pc' = [pc EXCEPT ![c] = "idle"]
    /\ tmp' = [tmp EXCEPT ![c] = NoFile]
    /\ UNCHANGED <<gBound, hBound, gsem, hsem, host, phase, attempt, maxr, nreq,
                   sleepFor, sleepKind, resp, result, query, url, feedOut, dest>>
    /\ UNCHANGED <<queryVars, schedVars, filterVars, mapperVars>>

(***************************************************************************)
(* The scan's fetch call, carried out by a crawler.                        *)
(***************************************************************************)
\* fetch(query, max_retries: int = 3)
DefaultMaxRetries == 3

\* items = await nyaa_client.fetch(query): the call, for an entry that has a
\* query and a usable destination
ScanCallsFetch(r, c) ==
    /\ tpc[r] = "body" /\ spc[r] = "title"
    /\ FetchStart(c, "q1", DefaultMaxRetries)

\* what the scan sees of an ended fetch: the exception, [] or the items
FetchOutcome(c) ==
    IF pc[c] = "raised" THEN "fetch_error"
    ELSE IF result[c] = "empty" THEN "no_items" ELSE "items"

\* the call has ended and the scan goes on with what it returned or raised;
\* the ended call is followed no further
ScanAwaitsFetch(r, c) ==
    /\ role[c] = "crawler" /\ pc[c] \in {"returned", "raised"}
    /\ ScanTitleBody(r, FetchOutcome(c))
    /\ role' = [role EXCEPT ![c] = "none"]
    /\ pc' = [pc EXCEPT ![c] = "idle"]
    /\ nreq' = [nreq EXCEPT ![c] = [p \in Phases |-> 0]]
    /\ UNCHANGED <<gBound, hBound, gsem, hsem, host, phase, attempt, maxr,
                   sleepFor, sleepKind, resp, result, query, url, feedOut>>
    /\ UNCHANGED sideVars

(***************************************************************************)
(* The job API: run_job wraps the job in a track_task of its own, and the  *)
(* scan job calls scan_nyaa_sources, which opens the scan's track_task.    *)
(***************************************************************************)
\* the wrapper's tracker and the scan's
Wrapper == 1
ScanRun == 2

\* async with track_task(task_type=job_type, trigger="api"): tracker.start()
JobStart == TaskStart(Wrapper)

\* result = await _run_scan_nyaa(container): scan_nyaa_sources(trigger="api")
\* enters its own track_task
JobCallsScan ==
    /\ tpc[Wrapper] = "body"
    /\ ScanStart(ScanRun)

\* (mutant) _run_scan_nyaa catches the error of the scan and returns
JobAwaitsScanSwallows ==
    /\ tpc[Wrapper] = "body" /\ tpc[ScanRun] = "done"
    /\ trResult' = [trResult EXCEPT ![Wrapper] = "payload"]
    /\ tpc' = [tpc EXCEPT ![Wrapper] = "complete"]
    /\ exc' = exc
    /\ UNCHANGED <<row, items_processed, items_succeeded, items_failed, outcome>>
    /\ UNCHANGED nonTrackVars

\* scan_nyaa_sources has ended: when it returned, _run_scan_nyaa returns
\* {"status": "completed"}, run_job does tracker.set_result(result) and the
\* wrapper's track_task goes on to complete; when it raised (its track_task
\* re-raises), the error leaves _run_scan_nyaa and run_job's block
JobAwaitsScan ==
    /\ tpc[Wrapper] = "body" /\ tpc[ScanRun] = "done"
    /\ IF outcome[ScanRun] = "returned"
       THEN /\ trResult' = [trResult EXCEPT ![Wrapper] = "payload"]
            /\ tpc' = [tpc EXCEPT ![Wrapper] = "complete"]
            /\ exc' = exc
       ELSE /\ trResult' = trResult
            /\ tpc' = [tpc EXCEPT ![Wrapper] = "fail"]
            /\ exc' = [exc EXCEPT ![Wrapper] = outcome[ScanRun]]
    /\ UNCHANGED <<row, items_processed, items_succeeded, items_failed, outcome>>
    /\ UNCHANGED nonTrackVars

(***************************************************************************)
(* Specifications.                                                         *)
(***************************************************************************)
CallersIdle ==
    /\ role = [c \in Callers |-> "none"]
    /\ host = [c \in Callers |-> NyaaHost]
    /\ pc = [c \in Callers |-> "idle"]
    /\ phase = [c \in Callers |-> "rss"]
    /\ attempt = [c \in Callers |-> 0]
    /\ maxr = [c \in Callers |-> 0]
    /\ nreq = [c \in Callers |-> [p \in Phases |-> 0]]
    /\ sleepFor = [c \in Callers |-> 0]
    /\ sleepKind = [c \in Callers |-> "none"]
    /\ resp = [c \in Callers |-> "none"]
    /\ result = [c \in Callers |-> "none"]
    /\ query = [c \in Callers |-> "none"]
    /\ url = [c \in Callers |-> <<"none", "none">>]
    /\ feedOut = [c \in Callers |-> "none"]

\* build_container: Semaphore(bound) for the global limiter, and a default
\* dict creating Semaphore(max_concurrent) for every domain on first use
GovInit ==
    /\ gBound \in 1..MaxBound
    /\ hBound \in 1..MaxBound
    /\ gsem = gBound
    /\ hsem = [d \in Hosts |-> hBound]

CrawlerStep(c) ==
    \/ AcquireGlobal(c)
    \/ AcquireHost(c)
    \/ \E h \in RetryAfterHeaders : RespondRateLimited(c, h)
    \/ \E kind \in ErrorKinds : RespondError(c, kind)
    \/ RespondFatal(c)
    \/ \E items \in {"empty", "items"} : RespondOk(c, items)
    \/ Wake(c)
    \/ Cancel(c)

DownloaderStep(c) ==
    \/ \E body \in {"content", "empty", "error"} : DownloadRespond(c, body)
    \/ WriteTemp(c)
    \/ WriteFails(c)
    \/ WriteDone(c)

\* await write_bytes_atomically(filepath, content) from its first line to the
\* rename, as one step: the write touches nothing of the governor, whose
\* permits download gave back before it looked at the body
WriteWhole(c) ==
    /\ role[c] = "downloader" /\ pc[c] = "write"
    /\ ~tmp[c].exists
    /\ dest' = File(Content(c))
    /\ pc' = [pc EXCEPT ![c] = "returned"]
    /\ result' = [result EXCEPT ![c] = "path"]
    /\ UNCHANGED tmp
    /\ UNCHANGED writeFrame
    /\ UNCHANGED nonFileVars
    /\ UNCHANGED fetchVars

\* download as the governor sees it
GovernedDownload(c) ==
    \/ \E body \in {"content", "empty", "error"} : DownloadRespond(c, body)
    \/ WriteWhole(c)
    \/ WriteFails(c)

\* the governor under concurrent fetch() and download() calls; a governed
\* fetch makes one attempt per endpoint
GovNext ==
    \E c \in 1..NumCallers :
        \/ FetchStart(c, "q1", 1)
        \/ \E h \in Hosts : DownloadStart(c, h)
        \/ CrawlerStep(c)
        \/ GovernedDownload(c)

\* the parts a specification does not exercise
SideParked ==
    /\ QueryParked /\ SchedIdle /\ FilesParked /\ FilterParked /\ MapperParked

GovernorInit ==
    /\ GovInit /\ CallersIdle /\ TrackIdle /\ StoreIdle /\ ScanParked /\ SideParked

SpecGov == GovernorInit /\ [][GovNext]_vars

\* downloads only, by more callers than the global bound, to two hosts
HostsNext ==
    \E c \in Callers :
        \/ \E h \in Hosts : DownloadStart(c, h)
        \/ AcquireGlobal(c)
        \/ AcquireHost(c)
        \/ GovernedDownload(c)

SpecHosts == GovernorInit /\ [][HostsNext]_vars

\* one fetch(query, max_retries) on its own
FetchNext ==
    \/ \E q \in Queries, m \in 0..MaxRetries : FetchStart(1, q, m)
    \/ CrawlerStep(1)

SpecFetch == GovernorInit /\ [][FetchNext]_vars

\* one tracked task; the governor is not used
TaskInit ==
    /\ GovInit /\ CallersIdle /\ TrackIdle /\ StoreIdle /\ ScanParked /\ SideParked
    /\ gBound = 1 /\ hBound = 1

SpecTask == TaskInit /\ [][TaskNext]_vars

\* mark_seen called directly, by two concurrent callers, with documents of
\* every title and link
StoreNext ==
    \E r \in Runs :
        \/ \E t \in TitleIds, l \in Links : StoreMarkSeenFind(r, t, l)
        \/ \E how \in {"retry", "error"} : StoreMarkSeenInsert(r, how)

StoreInit ==
    /\ GovInit /\ CallersIdle /\ TrackIdle /\ StoreIdle /\ ScanParked /\ SideParked
    /\ gBound = 1 /\ hBound = 1

SpecStore == StoreInit /\ [][StoreNext]_vars

\* two runs of scan_nyaa_sources (scheduled and manual), overlapping or one
\* after the other, over the same profiles and the same upstream items; the
\* entries have a query and a usable destination
ScanNext ==
    \E r \in Runs :
        \/ ScanStart(r)
        \/ \E out \in {"fetch_error", "items"} : ScanTitle(r, out)
        \/ ScanItem(r)
        \/ \E ok \in BOOLEAN : ScanDownload(r, ok)
        \/ ScanMarkFind(r)
        \/ \E how \in {"retry", "error"} : ScanMarkInsert(r, how)
        \/ \E how \in {"ok", "raise_before", "raise_after"} : TaskComplete(r, how)
        \/ TaskFail(r)

ScanInit ==
    /\ GovInit /\ CallersIdle /\ TrackIdle /\ StoreIdle /\ ScanIdle /\ SideParked
    /\ gBound = 1 /\ hBound = 1

SpecScan == ScanInit /\ [][ScanNext]_vars

\* one run of scan_nyaa_sources on its own, its entries meeting every outcome
RunNext ==
    \/ ScanStart(1)
    \/ \E out \in TitleOutcomes : ScanTitle(1, out)
    \/ ScanItem(1)
    \/ \E ok \in BOOLEAN : ScanDownload(1, ok)
    \/ ScanMarkFind(1)
    \/ \E how \in {"retry", "error"} : ScanMarkInsert(1, how)
    \/ \E how \in {"ok", "raise_before", "raise_after"} : TaskComplete(1, how)
    \/ TaskFail(1)

RunInit ==
    /\ GovInit /\ CallersIdle /\ TrackIdle /\ StoreIdle /\ ScanIdle /\ SideParked
    /\ gBound = 1 /\ hBound = 1

SpecRun == RunInit /\ [][RunNext]_vars

\* the crawl, the tracker, the store and the scan at rest
CoreParked ==
    /\ GovInit /\ CallersIdle /\ TrackIdle /\ StoreIdle /\ ScanParked
    /\ gBound = 1 /\ hBound = 1

\* the head of the scan loop for one stored profile
QueryNext ==
    \/ QueryList
    \/ QueryBuild

QueryInit ==
    /\ CoreParked
    /\ QueryIdle /\ SchedIdle /\ FilesParked /\ FilterParked /\ MapperParked

SpecQuery == QueryInit /\ [][QueryNext]_vars

\* start, shutdown, reload and lifespan exit by two handlers, and the two
\* scheduled runs
SchedNext ==
    \/ \E h \in Handlers :
          \/ StartCall(h)
          \/ \E ok \in BOOLEAN : StartFinish(h, ok)
          \/ \E cancels \in BOOLEAN : Shutdown(h, cancels)
          \/ \E cancels \in BOOLEAN : Reload(h, cancels)
          \/ \E cancels \in BOOLEAN : LifespanExit(h, cancels)
          \/ \E cancels \in BOOLEAN : ContainerExit(h, cancels)
    \/ \E r \in Runs :
          \/ Fire(r)
          \/ RunReturns(r)
          \/ \E error \in ErrorTexts : RunRaises(r, error)
          \/ RunCancelled(r)
          \/ \E how \in {"ok", "raise_before", "raise_after"} : TaskComplete(r, how)
          \/ TaskFail(r)

SchedInit ==
    /\ CoreParked
    /\ QueryParked /\ SchedIdle /\ FilesParked /\ FilterParked /\ MapperParked

SpecSched == SchedInit /\ [][SchedNext]_vars

\* one run of the scan whose downloads caller 1 carries out, beside another
\* download of the same file by caller 2
AcquireNext ==
    \/ ScanStart(1)
    \/ \E out \in {"fetch_error", "items"} : ScanTitle(1, out)
    \/ ScanItem(1)
    \/ ScanCallsDownload(1, 1)
    \/ ScanAwaitsDownload(1, 1)
    \/ ScanMarkFind(1)
    \/ \E how \in {"retry", "error"} : ScanMarkInsert(1, how)
    \/ \E how \in {"ok", "raise_before", "raise_after"} : TaskComplete(1, how)
    \/ TaskFail(1)
    \/ DownloadStart(2, NyaaHost)
    \/ \E c \in {1, 2} :
          \/ AcquireGlobal(c)
          \/ AcquireHost(c)
          \/ DownloaderStep(c)

AcquireInit ==
    /\ GovInit /\ CallersIdle /\ TrackIdle /\ StoreIdle /\ ScanIdle
    /\ gBound = 1 /\ hBound = 1
    /\ QueryParked /\ SchedIdle /\ FilesIdle /\ FilterParked /\ MapperParked

SpecAcquire == AcquireInit /\ [][AcquireNext]_vars

\* matches_filters on every item and criteria of the pools
FilterNext == Match

FilterInit ==
    /\ CoreParked
    /\ QueryParked /\ SchedIdle /\ FilesParked /\ FilterIdle /\ MapperParked

SpecFilter == FilterInit /\ [][FilterNext]_vars

\* a PathMapper over every table of the pool, translating every path
MapperNext ==
    \/ MapperConstruct
    \/ MapperTranslate

MapperInit ==
    /\ CoreParked
    /\ QueryParked /\ SchedIdle /\ FilesParked /\ FilterParked /\ MapperIdle

SpecMapper == MapperInit /\ [][MapperNext]_vars

\* one fetch whose steps are eventually taken: the HTTP client has a timeout,
\* so a request ends, a sleep ends when its delay has passed, and nobody
\* else holds the permits
FetchFairness == WF_vars(CrawlerStep(1))

SpecFetchFair == GovernorInit /\ [][FetchNext]_vars /\ FetchFairness

\* one run of scan_nyaa_sources whose fetch calls are carried out by a
\* crawler against a server answering in every way; upstream has items and
\* the export is switched off
CrawlNext ==
    \/ ScanStart(1)
    \/ ScanCallsFetch(1, 1)
    \/ ScanAwaitsFetch(1, 1)
    \/ ScanItem(1)
    \/ \E ok \in BOOLEAN : ScanDownload(1, ok)
    \/ ScanMarkFind(1)
    \/ \E how \in {"retry", "error"} : ScanMarkInsert(1, how)
    \/ \E how \in {"ok", "raise_before", "raise_after"} : TaskComplete(1, how)
    \/ TaskFail(1)
    \/ AcquireGlobal(1)
    \/ AcquireHost(1)
    \/ \E h \in RetryAfterHeaders : RespondRateLimited(1, h)
    \/ \E kind \in ErrorKinds : RespondError(1, kind)
    \/ RespondFatal(1)
    \/ \E items \in {"empty", "items"} : RespondOk(1, items)
    \/ Wake(1)

CrawlInit ==
    /\ GovInit /\ CallersIdle /\ TrackIdle /\ StoreIdle /\ ScanIdle /\ SideParked
    /\ gBound = 1 /\ hBound = 1
    /\ enabled # <<>> /\ feed # <<>> /\ cfg = "disabled"

SpecCrawl == CrawlInit /\ [][CrawlNext]_vars

\* two callers, each a fetch with two attempts per endpoint (so that it backs
\* off) or a download with its write step by step
HoldNext ==
    \E c \in {1, 2} :
        \/ FetchStart(c, "q1", 2)
        \/ \E h \in Hosts : DownloadStart(c, h)
        \/ CrawlerStep(c)
        \/ DownloaderStep(c)

SpecHold == GovernorInit /\ [][HoldNext]_vars

\* three downloads to two hosts, more than either bound when it is 1 or 2
Waiters == {1, 2, 3}

WaitNext ==
    \E c \in Waiters :
        \/ \E h \in Hosts : DownloadStart(c, h)
        \/ AcquireGlobal(c)
        \/ AcquireHost(c)
        \/ GovernedDownload(c)

\* the waiters of a semaphore are served in turn (asyncio.Semaphore wakes its
\* waiters first come, first served), and a request ends (the HTTP client has
\* a timeout)
GovFairness ==
    \A c \in Waiters :
        /\ SF_vars(AcquireGlobal(c))
        /\ SF_vars(AcquireHost(c))
        /\ WF_vars(\E body \in {"content", "empty", "error"} : DownloadRespond(c, body))

SpecHostsFair == GovernorInit /\ [][WaitNext]_vars /\ GovFairness

\* POST /jobs/run with job_type scan_nyaa: the wrapper and, inside it, one
\* run of the scan
JobNext ==
    \/ JobStart
    \/ JobCallsScan
    \/ JobAwaitsScan
    \/ \E out \in {"fetch_error", "items"} : ScanTitle(ScanRun, out)
    \/ ScanItem(ScanRun)
    \/ \E ok \in BOOLEAN : ScanDownload(ScanRun, ok)
    \/ ScanMarkFind(ScanRun)
    \/ \E how \in {"retry", "error"} : ScanMarkInsert(ScanRun, how)
    \/ \E r \in Runs :
          \/ \E how \in {"ok", "raise_before", "raise_after"} : TaskComplete(r, how)
          \/ TaskFail(r)

JobInit ==
    /\ GovInit /\ CallersIdle /\ TrackIdle /\ StoreIdle /\ ScanIdle /\ SideParked
    /\ gBound = 1 /\ hBound = 1

SpecJob == JobInit /\ [][JobNext]_vars

(***************************************************************************)
(* Claims.                                                                 *)
(***************************************************************************)
\* ---- C1: in every reachable state the callers inside the governed section
\* are at most the global bound, and for every host key the callers inside
\* for that host are at most the per-host bound.
C1_GovernorBounds ==
    /\ Cardinality(Inside) <= gBound
    /\ \A h \in Hosts : Cardinality(InsideHost(h)) <= hBound

\* a crawler and a downloader compete: one of them is inside with a bound
\* exhausted (the global one, or the one of its host) and the other one is
\* kept waiting for that permit
C1_Witness ==
    \E c, d \in Callers :
        /\ role[c] # role[d] /\ role[c] # "none" /\ role[d] # "none"
        /\ pc[c] = "request"
        /\ \/ pc[d] = "acq_global" /\ gsem = 0
           \/ pc[d] = "acq_host" /\ host[d] = host[c] /\ hsem[host[d]] = 0

\* two runs overlap: both have started and neither started after the other
\* one had ended
RunsOverlap(r, q) ==
    /\ r # q
    /\ spc[r] # "idle" /\ spc[q] # "idle"
    /\ q \notin pred[r] /\ r \notin pred[q]

\* the rows that record the release (anilist id, link) of key k
RowsOf(k) == {d \in seen : <<d.anilist_id, d.link>> = k}

\* ---- C2 (as claimed): when two scan runs overlap, no release of a title
\* is downloaded by both of them.
C2_AcquiredByAtMostOne ==
    \A r, q \in Runs :
        RunsOverlap(r, q) => downloaded[r] \cap downloaded[q] = {}

\* ---- C2 (amended): two overlapping runs may both download the same
\* release of a title, since exists() is asked before the download and
\* mark_seen comes after it; what the uniqueness constraint of the store
\* guarantees is that the release is recorded at most once: at most one row
\* holds it, inserted by one of the two runs.
C2_RecordedByAtMostOne ==
    \A r, q \in Runs :
        RunsOverlap(r, q) =>
            \A k \in downloaded[r] \cap downloaded[q] : Cardinality(RowsOf(k)) <= 1

\* both overlapping runs downloaded the same release, both are past their
\* mark_seen call for it, and one row, inserted by the first run, records it
C2_Witness ==
    /\ RunsOverlap(1, 2)
    /\ spc[1] = "ended" /\ spc[2] = "ended"
    /\ \E k \in downloaded[1] \cap downloaded[2] :
          /\ Cardinality(RowsOf(k)) = 1
          /\ \A d \in RowsOf(k) : d.by = 1
          /\ msDoc[2].by = 2 /\ <<msDoc[2].anilist_id, msDoc[2].link>> = k

\* ---- C3 (as claimed): of two consecutive scan runs over the same profiles
\* and the same crawl results the second one downloads nothing; checked in
\* the weaker form that the second run downloads none of the releases the
\* first run downloaded, which environment failures of the first run (a
\* failed crawl or download) cannot break.
C3_SecondScanAcquiresNothing ==
    \A r, q \in Runs :
        q \in pred[r] => downloaded[r] \cap downloaded[q] = {}

\* ---- C4: in every reachable state of the store at most one row has a
\* given (title id, link) and at most one row has a given infohash; after a
\* mark_seen call for a title and an infohash, repeated or not, exactly one
\* row carries that infohash, and when the call returned exactly one row
\* holds that title with that infohash.
C4_StoreUnique ==
    /\ \A d, e \in seen :
          (d.anilist_id = e.anilist_id /\ d.link = e.link) => d = e
    /\ \A d, e \in seen :
          (d.infohash # NoHash /\ d.infohash = e.infohash) => d = e
    /\ \A r \in Runs :
          /\ msState[r] \in {"returned", "DuplicateKeyError"} =>
                Cardinality({d \in seen : d.infohash = msDoc[r].infohash}) = 1
          /\ msState[r] = "returned" =>
                Cardinality({d \in seen : /\ d.anilist_id = msDoc[r].anilist_id
                                          /\ d.infohash = msDoc[r].infohash}) = 1

\* both callers called mark_seen for the same title and infohash, both calls
\* returned, and one row holds that title with that infohash
C4_Witness ==
    /\ msState[1] = "returned" /\ msState[2] = "returned"
    /\ msDoc[1].anilist_id = msDoc[2].anilist_id
    /\ msDoc[1].infohash = msDoc[2].infohash
    /\ Cardinality({d \in seen : /\ d.anilist_id = msDoc[1].anilist_id
                                 /\ d.infohash = msDoc[1].infohash}) = 1

\* ---- C5 (as claimed): a mark_seen call whose document has the (title id,
\* link) or the non-null infohash of a stored row returns without raising
\* and leaves the stored rows unchanged.
C5_DuplicateIsNoOp ==
    [][\A r \in Runs :
        (/\ <<msDoc'[r], msState'[r]>> # <<msDoc[r], msState[r]>>
         /\ msState'[r] \in {"returned", "DuplicateKeyError"}
         /\ IndexConflict(seen, msDoc'[r]))
        => (msState'[r] = "returned" /\ seen' = seen)]_vars

\* ---- C6 (as claimed): a TaskRun row is created RUNNING, its status only
\* moves to COMPLETED or FAILED, and once it is COMPLETED or FAILED no later
\* step of track_task changes it.
C6_StatusChangesOnce ==
    [][\A r \in Runs :
        /\ (row[r].status = "absent" /\ row'[r].status # "absent")
              => row'[r].status = "running"
        /\ row[r].status = "running"
              => row'[r].status \in {"running", "completed", "failed"}
        /\ row[r].status \in {"completed", "failed"}
              => row'[r].status = row[r].status]_vars

\* ---- C7 (as claimed): whichever way the wrapped operation stops, once
\* track_task has ended the TaskRun row is COMPLETED or FAILED.
C7_EndedTaskIsResolved ==
    \A r \in Runs : tpc[r] = "done" => row[r].status \in {"completed", "failed"}

\* ---- C8: the update sent after a normal return sets COMPLETED with the
\* attached result payload and the current counters, and a task that returned
\* to its caller has such a row; the update sent when an error escaped sets
\* FAILED with the error text and the counters accumulated so far, and that
\* error is re-raised to the caller.
C8_CountersOf(r) ==
    [items_processed |-> items_processed[r],
     items_succeeded |-> items_succeeded[r],
     items_failed |-> items_failed[r]]

C8_RowCounters(doc) ==
    [items_processed |-> doc.items_processed,
     items_succeeded |-> doc.items_succeeded,
     items_failed |-> doc.items_failed]

C9_RateLimitKeepsBudget ==
    [][\A c \in Callers :
        (/\ role[c] = "crawler"
         /\ pc[c] = "sleep" /\ sleepKind[c] = "retry_after"
         /\ pc'[c] \notin {"sleep", "cancelled"})
        => /\ pc'[c] = "acq_global"
           /\ phase'[c] = phase[c]
           /\ maxr'[c] - attempt'[c] = maxr[c] - attempt[c]]_vars

\* ---- C10: a transient error at attempt k < N makes the crawler sleep
\* min(2^k, 30) and retry with the attempt counted; at attempt N the failure
\* is raised to the caller of fetch, and after that the crawler neither
\* sleeps nor requests again.
C10_BackoffThenRaise ==
    [][\A c \in Callers :
        /\ (/\ role[c] = "crawler" /\ pc[c] = "request"
            /\ pc'[c] \notin {"request", "cancelled"}
            /\ resp'[c] \in ErrorKinds)
           => IF attempt[c] < maxr[c]
              THEN /\ pc'[c] = "sleep"
                   /\ sleepKind'[c] = "backoff"
                   /\ sleepFor'[c] = (IF Pow2(attempt[c]) > 30 THEN 30
                                      ELSE Pow2(attempt[c]))
                   /\ attempt'[c] = attempt[c]
              ELSE /\ pc'[c] = "raised"
                   /\ result'[c] = "error"
                   /\ sleepFor'[c] = sleepFor[c]
        /\ (/\ role[c] = "crawler"
            /\ pc[c] = "sleep" /\ sleepKind[c] = "backoff"
            /\ pc'[c] \notin {"sleep", "cancelled"})
           => /\ pc'[c] = "acq_global"
              /\ phase'[c] = phase[c]
              /\ attempt'[c] = attempt[c] + 1
        /\ (role[c] = "crawler" /\ pc[c] = "raised")
           => /\ pc'[c] = "raised"
              /\ nreq'[c] = nreq[c]
              /\ sleepFor'[c] = sleepFor[c]]_vars

\* the crawler is in the capped backoff of its fifth failed attempt
C10_Witness ==
    \E c \in Callers :
        /\ role[c] = "crawler" /\ pc[c] = "sleep" /\ sleepKind[c] = "backoff"
        /\ resp[c] \in ErrorKinds
        /\ attempt[c] = 5 /\ sleepFor[c] = BackoffCap

\* ---- C11: for a fetch with at least one attempt per endpoint: the first
\* request goes to the feed; an HTML request has been issued only if the feed
\* path returned zero items, and once the feed path has returned zero items
\* the crawler is in the HTML path, has issued its request or is still waiting
\* for (or was cancelled waiting for) the permits of its first one, and cannot
\* return without it; when the feed returned items fetch has returned them
\* with no HTML request; when the feed path raised no HTML request was
\* issued; and every request carries the query fetch was called with.
C11_FallbackIffFeedEmpty ==
    \A c \in Callers :
        (role[c] = "crawler" /\ maxr[c] >= 1) =>
            /\ nreq[c]["html"] > 0 => (feedOut[c] = "empty" /\ nreq[c]["rss"] > 0)
            /\ feedOut[c] = "empty" =>
                  /\ phase[c] = "html"
                  /\ \/ nreq[c]["html"] > 0
                     \/ /\ pc[c] \in {"acq_global", "acq_host", "cancelled"}
                        /\ attempt[c] = 1
            /\ feedOut[c] = "items" =>
                  /\ nreq[c]["html"] = 0
                  /\ pc[c] = "returned" /\ result[c] = "items"
            /\ (pc[c] = "raised" /\ feedOut[c] = "none") => nreq[c]["html"] = 0
            /\ nreq[c]["rss"] + nreq[c]["html"] > 0 =>
                  /\ url[c][2] = query[c]
                  /\ url[c][1] = (IF nreq[c]["html"] > 0 THEN "html" ELSE "rss")

\* the feed returned nothing, the HTML page was requested for the same query
\* and gave the items fetch returned
C11_Witness ==
    \E c \in Callers :
        /\ role[c] = "crawler" /\ pc[c] = "returned"
        /\ feedOut[c] = "empty" /\ result[c] = "items"
        /\ nreq[c]["rss"] > 0 /\ nreq[c]["html"] > 0
        /\ url[c] = <<"html", query[c]>> /\ query[c] = "q2"

\* ---- C12: a permit of the global semaphore is taken only by a caller
\* that holds none, and a host permit only by a caller that holds the global
\* one; in every reachable state each semaphore's value is its capacity minus
\* the callers holding a permit of it, on whatever path the others left
\* (return, error, cancellation); so once every caller has finished, the
\* global count and every host count equal their capacity.
C12_PermitsReleased ==
    /\ [](/\ gsem = gBound - Cardinality({c \in Callers : HoldsGlobal(c)})
          /\ \A h \in Hosts :
                hsem[h] = hBound
                          - Cardinality({c \in Callers : HoldsHost(c) /\ host[c] = h})
          /\ (\A c \in Callers : pc[c] \in Terminal) =>
                (gsem = gBound /\ \A h \in Hosts : hsem[h] = hBound))
    /\ [][/\ gsem' < gsem =>
                \E c \in Callers : ~HoldsGlobal(c) /\ pc'[c] = "acq_host"
          /\ \A h \in Hosts :
                hsem'[h] < hsem[h] =>
                    \E c \in Callers : /\ HoldsGlobal(c) /\ ~HoldsHost(c)
                                       /\ host[c] = h /\ pc'[c] = "request"]_vars

\* both callers have finished, one cancelled while its request was pending
\* (it held both permits) and one by an error, and all permits are back
C12_Witness ==
    /\ \E c, d \in Callers :
          /\ pc[c] = "cancelled" /\ role[c] = "crawler"
          /\ nreq[c]["rss"] = 1 /\ resp[c] = "none"
          /\ pc[d] = "raised"
    /\ gsem = gBound /\ \A h \in Hosts : hsem[h] = hBound

\* ---- C13 (as claimed): a caller that waits for its first permit while its
\* target host has a free host permit, fewer than the global bound of
\* operations are executing, and every other caller that is not executing is
\* queued for a host whose permits are all taken, is not kept waiting: its
\* acquisition can proceed.
C13_FreeHostNotStarved ==
    \A c \in Callers :
        (/\ pc[c] = "acq_global"
         /\ hsem[host[c]] > 0
         /\ Cardinality(Inside) < gBound
         /\ \A d \in Callers : pc[d] = "acq_host" => hsem[host[d]] = 0)
        => ENABLED AcquireGlobal(c)

\* in this step run r finishes the entry of a title with one of the
\* outcomes `outs`
TitleEndsWith(r, outs) ==
    /\ titleOut'[r] # titleOut[r]
    /\ titleOut'[r][enabled[ti[r]]] \in outs

\* in this step run r goes on to its next entry, or returns after the last
\* one; no exception leaves the scan
GoesOn(r) ==
    IF ti[r] < Len(enabled)
    THEN tpc'[r] = "body" /\ spc'[r] = "title" /\ ti'[r] = ti[r] + 1
    ELSE tpc'[r] = "complete" /\ spc'[r] = "ended"

\* run r made no download for title t
NoDownloadFor(r, t) == \A l \in Links : <<t, l>> \notin downloaded[r]

\* run r has ended with no exception raised in its body or by complete()
EndedClean(r) == tpc[r] = "done" /\ exc[r] = "none"

\* ---- C14: the step in which the crawl of a title fails downloads nothing,
\* adds one to the failed counter and goes on to the next enabled title (or
\* returns after the last); the run has no download for that title, and when
\* it ends with no exception from elsewhere its row is COMPLETED with the
\* failure counted.
C14_CrawlFailureIsolated ==
    /\ [](\A r \in Runs, t \in TitleIds :
            titleOut[r][t] = "fetch_error" =>
                /\ NoDownloadFor(r, t)
                /\ EndedClean(r) =>
                      (row[r].status = "completed" /\ row[r].items_failed >= 1))
    /\ [][\A r \in Runs :
            TitleEndsWith(r, {"fetch_error"}) =>
                /\ items_failed'[r] = items_failed[r] + 1
                /\ total_failed'[r] = total_failed[r] + 1
                /\ downloaded' = downloaded
                /\ GoesOn(r)]_vars

\* the crawl of the first title failed, the second title was crawled and its
\* release downloaded, and the run ended COMPLETED with one failure
C14_Witness ==
    /\ titleOut[1][1] = "fetch_error" /\ titleOut[1][2] = "items"
    /\ downloaded[1] # {}
    /\ EndedClean(1) /\ row[1].status = "completed" /\ row[1].items_failed = 1

\* ---- C15 (as claimed): the step in which the destination directory of a
\* title fails (not a directory; missing with creation disabled; creation
\* fails) goes on to the next enabled title and raises nothing.
C15_DirectoryFailureIsolated ==
    [][\A r \in Runs :
        TitleEndsWith(r, {"ValueError", "FileNotFoundError", "OSError"}) => GoesOn(r)]_vars

\* ---- C16: the step in which the destination template of a title renders
\* to the empty string downloads nothing and goes on to the next enabled
\* title (or returns after the last); the run has no download for that
\* title, and when it ends with no exception from elsewhere its row is
\* COMPLETED.
C16_EmptyTemplateSkipsTitle ==
    /\ [](\A r \in Runs, t \in TitleIds :
            titleOut[r][t] = "template_empty" =>
                /\ NoDownloadFor(r, t)
                /\ EndedClean(r) => row[r].status = "completed")
    /\ [][\A r \in Runs :
            TitleEndsWith(r, {"template_empty"}) =>
                (downloaded' = downloaded /\ GoesOn(r))]_vars

\* the template of the first title rendered empty, the second title was
\* crawled and its release downloaded, and the run ended COMPLETED
C16_Witness ==
    /\ titleOut[1][1] = "template_empty" /\ titleOut[1][2] = "items"
    /\ downloaded[1] # {}
    /\ EndedClean(1) /\ row[1].status = "completed"

\* ---- C17 (as claimed): the step in which a title fails partially (empty
\* rendered template, directory failure, crawl failure) adds exactly one to
\* the failed counter and goes on to the next enabled title.
C17_PartialFailureCounted ==
    [][\A r \in Runs :
        TitleEndsWith(r, {"template_empty", "ValueError", "FileNotFoundError",
                          "OSError", "fetch_error"}) =>
            (items_failed'[r] = items_failed[r] + 1 /\ GoesOn(r))]_vars

\* two items of a crawl result are the same release: same link, or same
\* non-null infohash
SameRelease(a, b) ==
    \/ a.link = b.link
    \/ a.infohash # NoHash /\ a.infohash = b.infohash

\* run r is done with item i of the entry of title t
PastItem(r, t, i) ==
    \/ spc[r] = "ended"
    \/ /\ spc[r] # "idle"
       /\ \E k \in 1..Len(enabled) :
             /\ enabled[k] = t
             /\ \/ ti[r] > k
                \/ ti[r] = k /\ ii[r] > i

\* ---- C18 (as claimed): when the crawl result of a title holds the same
\* release at positions i < j, both passing the title's filters, a run
\* without failed downloads never downloads the later occurrence, and once
\* it is done with the first occurrence it downloaded, the store holds that
\* release for the title (so that the later one is skipped as seen).
C18_DuplicateAcquiredOnce ==
    \A r \in Runs, t \in TitleIds :
        \A i, j \in DOMAIN feed :
            (/\ i < j /\ SameRelease(feed[i], feed[j])
             /\ t \in feed[i].pass /\ t \in feed[j].pass
             /\ titleOut[r][t] = "items" /\ total_failed[r] = 0)
            => /\ ~(/\ spc[r] = "download" /\ enabled[ti[r]] = t /\ ii[r] = j)
               /\ (<<t, feed[i].link>> \in downloaded[r] /\ PastItem(r, t, i))
                     => Exists(seen, t, feed[i].infohash, feed[i].link)

\* ---- C19: every stored row was inserted by a run that had downloaded that
\* release before, and a run is inside mark_seen only for a release it has
\* downloaded; a run that examines a release passing the filters that no row
\* of the title records (for instance because an earlier run stopped between
\* its download and its mark_seen) goes on to download it.
C19_AcquireBeforeMark ==
    /\ [](/\ \A d \in seen : <<d.anilist_id, d.link>> \in downloaded[d.by]
          /\ \A r \in Runs :
                spc[r] \in {"mark", "insert"} =>
                    <<msDoc[r].anilist_id, msDoc[r].link>> \in downloaded[r])
    /\ [][\A r \in Runs :
            (/\ tpc[r] = "body" /\ spc[r] = "item"
             /\ <<spc'[r], ti'[r], ii'[r]>> # <<spc[r], ti[r], ii[r]>>
             /\ enabled[ti[r]] \in feed[ii[r]].pass
             /\ ~Exists(seen, enabled[ti[r]], feed[ii[r]].infohash, feed[ii[r]].link))
            => (spc'[r] = "download" /\ seen' = seen)]_vars

\* the first run recorded one release and stopped between the download and
\* the mark_seen of another; the second run, started after it, downloaded
\* that one again
C19_Witness ==
    /\ 1 \in pred[2]
    /\ \E d \in seen : d.by = 1
    /\ \E k \in downloaded[1] \cap downloaded[2] : RowsOf(k) = {}

\* ---- C20: after a mark_seen call returned, exists is true for the
\* title, infohash and link of its document; exists is true for a title of a
\* stored row whenever the queried infohash alone, or the queried link alone,
\* is that of the row; and no step removes a row, so an exists that is true
\* stays true.
C20_ExistsAfterMarkSeen ==
    /\ [](/\ \A r \in Runs :
                msState[r] = "returned" =>
                    Exists(seen, msDoc[r].anilist_id, msDoc[r].infohash, msDoc[r].link)
          /\ \A d \in seen :
                /\ \A l \in Links : Exists(seen, d.anilist_id, d.infohash, l)
                /\ \A h \in Hashes \cup {NoHash} : Exists(seen, d.anilist_id, h, d.link))
    /\ [][/\ seen \subseteq seen'
          /\ \A t \in TitleIds, h \in Hashes \cup {NoHash}, l \in Links :
                Exists(seen, t, h, l) => Exists(seen', t, h, l)]_vars

\* the first caller's mark_seen inserted its row, the other caller's later
\* call added a row of another release, and exists still holds for the first
C20_Witness ==
    /\ msState[1] = "returned" /\ msDoc[1] \in seen
    /\ msState[2] = "returned" /\ msDoc[2] \in seen
    /\ msDoc[1].infohash # msDoc[2].infohash
    /\ Exists(seen, msDoc[1].anilist_id, NoHash, msDoc[1].link)
    /\ Exists(seen, msDoc[1].anilist_id, msDoc[1].infohash, msDoc[2].link)

\* ---- C21: every enabled profile is visited by the scan with its effective
\* query: the explicit query when set, otherwise, when the profile opted in
\* to auto-derivation and the title has a known name or synonym, the order-
\* preserving deduplicated join of those names, and then it is crawled; a
\* profile with no resolvable query is skipped.
C21_EffectiveQuery(s, a) ==
    IF Truthy(s.search_query) THEN <<s.search_query>>
    ELSE IF s.auto_query_from_synonyms /\ a.present THEN Dedup(KnownNames(a))
    ELSE <<>>

C21_EnabledProfileVisited ==
    (qpc \in {"not_listed", "skipped", "crawled"} /\ setting.enabled) =>
        IF C21_EffectiveQuery(setting, anime) # <<>>
        THEN qpc = "crawled" /\ effQuery = C21_EffectiveQuery(setting, anime)
        ELSE qpc \in {"not_listed", "skipped"}

\* ---- C22: a scheduler shutdown does not wait for a run in flight, and a run
\* that is in flight when the shutdown happens still runs to its end and
\* writes COMPLETED or FAILED to its own TaskRun; no scheduled run starts
\* while the scheduler is shut down.
C22_ShutdownLetsRunsFinish ==
    /\ [](\A r \in Runs :
             (shutHit[r] # "no" /\ tpc[r] = "done") =>
                 row[r].status \in {"completed", "failed"})
    /\ [][\A r \in Runs : (tpc[r] = "new" /\ tpc'[r] = "body") => schedRunning]_vars

\* ---- C23: start ensures the storage indexes first and registers the two
\* triggers idempotently: after any sequence of start, shutdown and reload
\* there is at most one registered trigger with each id, after a successful
\* start exactly one of each, and no scheduled scan fires (no trigger of it
\* is registered) before the torrents_seen indexes have been ensured.
C23_TriggersRegisteredOnce ==
    /\ \A id \in JobIds : jobs[id] <= 1
    /\ schedRunning => \A id \in JobIds : jobs[id] = 1
    /\ (jobs["scan_nyaa"] >= 1 \/ tpc[2] # "new") => indexed

\* the scheduler runs again, with one trigger of each id, after a shutdown
\* that met a run in flight, while another start is on its way
C23_Witness ==
    /\ schedRunning /\ indexed
    /\ \A id \in JobIds : jobs[id] = 1
    /\ \E r \in Runs : shutHit[r] # "no"
    /\ \E h \in Handlers : hpc[h] = "initialize"

\* ---- C24: a download whose response body is empty is a failure: download
\* raises, no file is created or replaced at the destination path (nor a
\* temporary one beside it), and the scan, going on from the raised call,
\* counts a failure and records no SeenRelease for the candidate.
C24_EmptyBodyIsFailure ==
    [][\A c \in {1, 2} :
          /\ (pc[c] = "request" /\ pc'[c] # "request" /\ resp'[c] = "empty") =>
                 /\ pc'[c] = "raised"
                 /\ dest' = dest /\ tmp' = tmp
          /\ (pc[c] = "raised" /\ resp[c] = "empty" /\ pc'[c] = "idle") =>
                 /\ seen' = seen /\ msDoc' = msDoc /\ msState' = msState
                 /\ spc'[1] \notin {"mark", "insert"}
                 /\ downloaded' = downloaded
                 /\ total_failed'[1] = total_failed[1] + 1]_vars

\* the scan has gone on from a download that got an empty body: a failure is
\* counted, nothing is stored and the destination is as it was
C24_Witness ==
    /\ resp[1] = "empty" /\ pc[1] = "idle" /\ result[1] = "error"
    /\ total_failed[1] >= 1
    /\ seen = {}
    /\ dest = NoFile /\ tmp[1] = NoFile

\* ---- C25: at every point during and after a download, also when two
\* downloads write the same destination concurrently or a write is
\* interrupted before the rename, the final file path does not exist, or
\* holds a previous complete content, or holds the complete downloaded
\* content.
C25_FinalFileComplete ==
    \/ ~dest.exists
    \/ dest.data = OldContent
    \/ \E c \in Callers : dest.data = Content(c)

\* one download has been interrupted with a part of its temporary file
\* written while the other has renamed its complete file over an earlier one
C25_Witness ==
    /\ pc[1] = "raised" /\ tmp[1].exists /\ Len(tmp[1].data) = 1
    /\ pc[2] = "returned" /\ dest = File(Content(2))

\* ---- C26: matches(C, P) is false whenever any exclude term of P is a
\* case-insensitive substring of C.title, whatever the include terms,
\* resolution, subgroup and publish date are.
C26_ExcludeRejects ==
    (/\ matched # "none"
     /\ \E k \in 1..Len(criteria.excludes) :
            Contains(Lower(nyaaItem.title), Lower(criteria.excludes[k])))
        => matched = "False"

\* an item rejected by an exclude term written in another case than the
\* title, with every include term present and no other rule against it
C26_Witness ==
    /\ matched = "False"
    /\ nyaaItem.title = <<"A", "b">> /\ criteria.excludes = <<<<"B">>>>
    /\ criteria.includes = <<<<"a">>>>
    /\ ~ResolutionRejects(nyaaItem, criteria)
    /\ ~SubgroupRejects(nyaaItem, criteria)
    /\ ~DateRejects(nyaaItem, criteria)

\* ---- C27: matches(C, P) is true only if every include term of P is a
\* case-insensitive substring of C.title (all of them, not any one); an
\* empty include list imposes no constraint.
C27_IncludesAreConjunction ==
    /\ matched = "True" =>
           \A k \in 1..Len(criteria.includes) :
               Contains(Lower(nyaaItem.title), Lower(criteria.includes[k]))
    /\ (matched # "none" /\ criteria.includes = <<>>) =>
           (matched = "True" <=>
                ~ \/ AnyExcludes(nyaaItem.title, criteria.excludes)
                  \/ ResolutionRejects(nyaaItem, criteria)
                  \/ SubgroupRejects(nyaaItem, criteria)
                  \/ DateRejects(nyaaItem, criteria))

\* an item rejected although one of its two include terms is in the title
C27_Witness ==
    /\ matched = "False"
    /\ nyaaItem.title = <<"a">> /\ criteria.includes = <<<<"a">>, <<"B">>>>
    /\ criteria.excludes = <<>>
    /\ ~ResolutionRejects(nyaaItem, criteria)
    /\ ~SubgroupRejects(nyaaItem, criteria)
    /\ ~DateRejects(nyaaItem, criteria)

\* what matches_filters answers for an item and criteria
C28_Outcome(it, cr) == IF MatchesFilters(it, cr) THEN "True" ELSE "False"

\* ---- C28: with a preferred resolution (or subgroup) and a known resolution
\* (or subgroup) of the candidate, matches requires them to be equal
\* ignoring case; an unknown field of the candidate never causes rejection;
\* the publish-date window rejects the candidates whose known publish time
\* lies strictly outside [after, before], and no others.
C28_PreferencesArePermissive ==
    matched # "none" =>
        /\ (criteria.preferred_resolution # <<>> /\ nyaaItem.resolution # <<>>
            /\ Lower(nyaaItem.resolution) # Lower(criteria.preferred_resolution))
               => matched = "False"
        /\ (criteria.preferred_subgroup # <<>> /\ nyaaItem.subgroup # <<>>
            /\ Lower(nyaaItem.subgroup) # Lower(criteria.preferred_subgroup))
               => matched = "False"
        /\ (nyaaItem.resolution = <<>>
            \/ Lower(nyaaItem.resolution) = Lower(criteria.preferred_resolution)) =>
               matched = C28_Outcome(nyaaItem,
                             [criteria EXCEPT !.preferred_resolution = <<>>])
        /\ (nyaaItem.subgroup = <<>>
            \/ Lower(nyaaItem.subgroup) = Lower(criteria.preferred_subgroup)) =>
               matched = C28_Outcome(nyaaItem,
                             [criteria EXCEPT !.preferred_subgroup = <<>>])
        /\ (/\ nyaaItem.published_at # 0
            /\ \/ criteria.published_after # 0
                  /\ nyaaItem.published_at < criteria.published_after
               \/ criteria.published_before # 0
                  /\ nyaaItem.published_at > criteria.published_before)
               => matched = "False"
        /\ (\/ nyaaItem.published_at = 0
            \/ /\ criteria.published_after # 0 => nyaaItem.published_at >= criteria.published_after
               /\ criteria.published_before # 0 => nyaaItem.published_at <= criteria.published_before)
               => matched = C28_Outcome(nyaaItem,
                             [criteria EXCEPT !.published_after = 0,
                                              !.published_before = 0])

\* an item of unknown resolution, of the preferred subgroup in another case
\* and published on the bound of the window passes
C28_Witness ==
    /\ matched = "True"
    /\ criteria.preferred_resolution # <<>> /\ nyaaItem.resolution = <<>>
    /\ criteria.preferred_subgroup = <<"a">> /\ nyaaItem.subgroup = <<"A">>
    /\ criteria.published_after = 2 /\ criteria.published_before = 2
    /\ nyaaItem.published_at = 2

\* the entries of a table whose source is a component-wise prefix of the path
\* and is the longest such source
C29_Longest(ms, p) ==
    {k \in 1..Len(ms) :
        /\ RelativeTo(p, ms[k].from)
        /\ \A j \in 1..Len(ms) :
               RelativeTo(p, ms[j].from) =>
                   Len(ms[j].from.parts) <= Len(ms[k].from.parts)}

\* the table configured in another order
C29_Orders(ms) ==
    {[k \in 1..Len(ms) |-> ms[q[k]]] :
        q \in {f \in [1..Len(ms) -> 1..Len(ms)] :
                  \A i, j \in 1..Len(ms) : f[i] = f[j] => i = j}}

C30_ExportOutcomeRecorded ==
    \A r \in Runs :
        /\ (spc[r] \in {"mark", "insert"} /\ msDoc[r].exported = "True") =>
               added[r] = "True"
        /\ added[r] \in {"False", "raised"} =>
               /\ msDoc[r] # NoDoc /\ msDoc[r].exported = "False"
               /\ \/ spc[r] \in {"mark", "insert"}
                  \/ \E d \in seen : /\ d.anilist_id = msDoc[r].anilist_id
                                    /\ d.link = msDoc[r].link

\* ---- C31 (as claimed): a candidate without an infohash that passes the
\* filter and is not yet seen is downloaded and then recorded with a null
\* infohash; the run is not failed by it.  With the export switched off the
\* export status of the document is False, so a ValidationError of the
\* document can only come from its infohash.
C31_NullHashIsRecorded ==
    \A r \in Runs :
        cfg = "disabled" => exc[r] # "ValidationError"

\* ---- C32 (as claimed): when a release recorded for one title is recorded
\* for a second title with the same infohash, the conflict with the unique
\* infohash index does not abort the run: the error does not leave the scan,
\* and the row of the run does not end FAILED with it.
C32_HashConflictDoesNotAbort ==
    \A r \in Runs :
        (/\ msState[r] = "DuplicateKeyError"
         /\ \E d \in seen : /\ d.infohash = msDoc[r].infohash
                            /\ d.anilist_id # msDoc[r].anilist_id)
        => /\ exc[r] # "DuplicateKeyError"
           /\ row[r].status # "failed"

\* ---- C33 (as claimed): whatever the configuration record is (none, export
\* off, export on), the export status given to the TorrentSeenDocument is a
\* boolean: a run whose candidates all carry an infohash is not failed while
\* building the document, and with no record or the export off the document
\* to record has the status false.
C33_ExportStatusIsBoolean ==
    \A r \in Runs :
        /\ (\A i \in 1..Len(feed) : feed[i].infohash # NoHash)
           => exc[r] # "ValidationError"
        /\ (cfg \in {"none", "disabled"} /\ spc[r] \in {"mark", "insert"})
           => msDoc[r].exported = "False"

\* ---- C34: when the download of a candidate fails (whatever made download
\* raise), the scan records nothing and attempts no export for it, counts
\* exactly one failure, and goes on with the next candidate, the next title
\* or the normal end of the run (to tracker.complete, not to fail); the store
\* still has no row for the candidate, so the next scan tries it again.
C34_FailedDownloadIsSkipped ==
    [][(/\ spc[1] = "download"
        /\ role[1] = "downloader" /\ pc[1] = "raised"
        /\ role'[1] = "none")
       => /\ seen' = seen /\ msDoc' = msDoc /\ msState' = msState
          /\ added'[1] = "none"
          /\ downloaded' = downloaded
          /\ total_failed'[1] = total_failed[1] + 1
          /\ items_failed'[1] = items_failed[1] + 1
          /\ total_downloaded' = total_downloaded
          /\ items_succeeded' = items_succeeded
          /\ exc' = exc
          /\ ~Exists(seen', enabled[ti[1]], feed[ii[1]].infohash,
                     feed[ii[1]].link)
          /\ IF ii[1] < Len(feed)
             THEN /\ spc'[1] = "item" /\ ii'[1] = ii[1] + 1 /\ ti' = ti
                  /\ tpc'[1] = "body"
             ELSE IF ti[1] < Len(enabled)
                  THEN /\ spc'[1] = "title" /\ ti'[1] = ti[1] + 1
                       /\ tpc'[1] = "body"
                  ELSE /\ spc'[1] = "ended" /\ tpc'[1] = "complete"]_vars

\* a run whose download failed once for the first title has recorded a
\* release of the second title and ended COMPLETED with one failure
C34_Witness ==
    /\ row[1].status = "completed"
    /\ row[1].items_failed = 1 /\ total_failed[1] = 1
    /\ titleOut[1] = [t \in TitleIds |-> "items"]
    /\ seen # {} /\ \A d \in seen : d.anilist_id = 2
    /\ Len(feed) = 1 /\ feed[1].pass = TitleIds

\* ---- C35: fetch(query) always terminates: whatever the server answers, it
\* issues at most max_retries requests to the feed endpoint and at most
\* max_retries to the HTML endpoint, and a fetch that has begun returns or
\* raises, after which it issues no request.
C35_FetchTerminates ==
    /\ [](\A p \in Phases : nreq[1][p] <= maxr[1])
    /\ [][pc[1] \in {"returned", "raised", "cancelled"} => nreq' = nreq]_vars
    /\ (pc[1] # "idle") ~> (pc[1] \in {"returned", "raised", "cancelled"})

\* a fetch with max_retries = 3 has returned after three requests to each
\* endpoint, the last one answered 429
C35_Witness ==
    /\ pc[1] = "returned" /\ maxr[1] = 3
    /\ nreq[1]["rss"] = 3 /\ nreq[1]["html"] = 3
    /\ resp[1] = "429"

C37_PermitsOnlyDuringRequest ==
    gBound - gsem
        <= Cardinality(Inside)
           + Cardinality({c \in Callers : pc[c] = "acq_host" /\ hsem[host[c]] > 0})

\* ---- C37 (amended): the permits of the governor are held only around the
\* HTTP request, the global one also while its holder waits for the host
\* permit: a caller that sleeps (Retry-After or backoff), that has its
\* response (parsing, validating the body, writing the file) or that has
\* ended holds none.  The permits missing from each semaphore are at most
\* the callers waiting for their host permit or awaiting their request, and
\* the step by which a request ends gives both permits back, whatever the
\* caller goes on to do.
C37_PermitsOnlyAroundRequest ==
    /\ [](/\ gBound - gsem
               <= Cardinality({c \in Callers : pc[c] \in {"acq_host", "request"}})
          /\ \A h \in Hosts :
                hBound - hsem[h]
                    <= Cardinality({c \in Callers : pc[c] = "request" /\ host[c] = h})
          /\ (\A c \in Callers : pc[c] \in Terminal \cup {"sleep", "write"})
             => (gsem = gBound /\ \A h \in Hosts : hsem[h] = hBound))
    /\ [][\A c \in Callers :
             (pc[c] = "request" /\ pc'[c] # "request")
             => /\ gsem' = gsem + 1
                /\ hsem' = [hsem EXCEPT ![host[c]] = @ + 1]]_vars

\* a crawler sleeps for a backoff and a downloader is writing its temporary
\* file, with both bounds 1: every permit is free
C37_Witness ==
    /\ gBound = 1 /\ hBound = 1
    /\ \E c, d \in Callers :
          /\ role[c] = "crawler" /\ pc[c] = "sleep" /\ sleepKind[c] = "backoff"
          /\ role[d] = "downloader" /\ pc[d] = "write"
          /\ tmp[d].exists /\ Len(tmp[d].data) = 1
    /\ gsem = 1 /\ \A h \in Hosts : hsem[h] = 1

\* ---- C38: the governor is deadlock-free: with more callers than permits,
\* two hosts and every pair of positive bounds, if every request ends and
\* the waiters are served fairly, a caller that waits for the global permit
\* or for its host permit eventually holds both (its request is issued).
C38_WaitersGetPermits ==
    \A c \in Waiters :
        (pc[c] \in {"acq_global", "acq_host"}) ~> (pc[c] = "request")

\* with both bounds 1, one caller has finished, one holds both permits and
\* awaits its request, and the third waits for the global permit
C38_Witness ==
    /\ gBound = 1 /\ hBound = 1
    /\ \E c, d, e \in Waiters :
          /\ pc[c] = "returned"
          /\ pc[d] = "request"
          /\ pc[e] = "acq_global" /\ host[e] = host[d]
    /\ gsem = 0

\* the row has reached COMPLETED or FAILED
Ended(r) == row[r].status \in {"completed", "failed"}

C40_TotalsMatchCounters ==
    \A r \in Runs :
        /\ total_downloaded[r] = items_succeeded[r]
        /\ total_failed[r] = items_failed[r]
        /\ (row[r].status = "completed" /\ row[r].result = "totals") =>
              /\ row[r].items_succeeded = total_downloaded[r]
              /\ row[r].items_failed = total_failed[r]
              /\ row[r].items_processed = items_processed[r]
        /\ items_processed[r] =
              Cardinality({t \in TitleIds : titleOut[r][t] \notin {"none", "no_query"}})

\* a COMPLETED scan of two profiles, one of them without a query: one title
\* processed, one candidate downloaded and one failed, so that succeeded plus
\* failed exceeds processed
C40_Witness ==
    /\ row[1].status = "completed" /\ row[1].result = "totals"
    /\ \E t \in TitleIds : titleOut[1][t] = "no_query"
    /\ row[1].items_processed = 1
    /\ row[1].items_succeeded = 1 /\ total_downloaded[1] = 1
    /\ row[1].items_failed = 1 /\ total_failed[1] = 1

====
